---- MODULE Spec2Model ----
(***************************************************************************)
(* A model of the ISL interpreter (src/core/interpreter.js, class          *)
(* ISLInterpreter with ISLError/ISLGroup, lines 1841-3669): the symbol     *)
(* store, the statement dispatcher, the keyword callbacks and the tick     *)
(* scheduler.  A source line is modelled after tokenisation, as the        *)
(* sequence of {value, type} components #parseLine hands to                *)
(* #executeStatement; variable getters are kept unresolved in the line and *)
(* resolved by ParseLine against the state, as #parseLine does.            *)
(***************************************************************************)
EXTENDS Integers, Sequences, FiniteSets, TLC

\* ------------------------------------------------------------------ bounds
\* Largest magnitude of a number value and largest `pause` countdown.
MaxNum == 2
\* Longest string value.
MaxStr == 3
\* Deepest call stack.
MaxDepth == 4
\* Most interval timers alive at once.
MaxTimers == 2
\* Largest instructions-per-tick setting the host chooses.
MaxIpt == 2
\* Most lines one run of a program executes.
MaxRun == 24

\* ------------------------------------------------------------- raw values
\* A JavaScript value: k is its typeof-like kind, n its number (0/1 for a
\* boolean), s its text; a number with s = "NaN" is NaN.
Raw(k, n, s) == [k |-> k, n |-> n, s |-> s]
Num(n) == Raw("number", n, "")
Str(s) == Raw("string", 0, s)
Bool(b) == Raw("boolean", IF b THEN 1 ELSE 0, "")
Null == Raw("null", 0, "")
Undef == Raw("undefined", 0, "")
NaN == Raw("number", 0, "NaN")
IsNaN(v) == v.k = "number" /\ v.s = "NaN"

\* The type tag of a variable declared without one (JavaScript undefined).
NoType == "<undefined>"

\* The integers a modelled string can spell.
NumRange == (0 - MaxNum - 1) .. (MaxNum + 1)

\* String(v)
ToStr(v) ==
  CASE v.k = "string" -> v.s
    [] v.k = "number" -> IF IsNaN(v) THEN "NaN" ELSE ToString(v.n)
    [] v.k = "boolean" -> IF v.n = 1 THEN "true" ELSE "false"
    [] v.k = "null" -> "null"
    [] OTHER -> "undefined"

\* Number(v)
ToNum(v) ==
  CASE v.k = "number" -> v
    [] v.k = "boolean" -> Num(v.n)
    [] v.k = "null" -> Num(0)
    [] v.k = "string" ->
         IF v.s = "" THEN Num(0)
         ELSE IF \E i \in NumRange : ToString(i) = v.s
              THEN Num(CHOOSE i \in NumRange : ToString(i) = v.s)
              ELSE NaN
    [] OTHER -> NaN

\* a + b
JsAdd(a, b) ==
  IF a.k = "string" \/ b.k = "string"
  THEN Str(ToStr(a) \o ToStr(b))
  ELSE IF IsNaN(ToNum(a)) \/ IsNaN(ToNum(b)) THEN NaN
       ELSE Num(ToNum(a).n + ToNum(b).n)

\* a - b
JsSub(a, b) ==
  IF IsNaN(ToNum(a)) \/ IsNaN(ToNum(b)) THEN NaN
  ELSE Num(ToNum(a).n - ToNum(b).n)

\* a * b
JsMul(a, b) ==
  IF IsNaN(ToNum(a)) \/ IsNaN(ToNum(b)) THEN NaN
  ELSE Num(ToNum(a).n * ToNum(b).n)

\* a / b has a modelled value when it is an integer or NaN.
DivExact(a, b) ==
  \/ IsNaN(ToNum(a)) \/ IsNaN(ToNum(b))
  \/ ToNum(b).n # 0 /\ ToNum(a).n % ToNum(b).n = 0
  \/ ToNum(b).n = 0 /\ ToNum(a).n = 0

\* a / b
JsDiv(a, b) ==
  IF IsNaN(ToNum(a)) \/ IsNaN(ToNum(b)) THEN NaN
  ELSE IF ToNum(b).n = 0 THEN NaN
       ELSE Num(ToNum(a).n \div ToNum(b).n)

\* Math.round(v)
JsRound(v) == ToNum(v)

\* -v
JsNeg(v) == IF IsNaN(ToNum(v)) THEN NaN ELSE Num(0 - ToNum(v).n)

\* A value the model's bounds can hold.
InBounds(v) ==
  /\ v.k = "number" => (v.n <= MaxNum /\ v.n >= 0 - MaxNum)
  /\ v.k = "string" => Len(v.s) <= MaxStr

\* ------------------------------------------------------------- components
\* A component of a tokenised line.
Comp(type, value) == [type |-> type, value |-> value]
Kw(name) == Comp("keyword", Str(name))
Id(name) == Comp("identifier", Str(name))
NumC(n) == Comp("number", Num(n))
StrC(s) == Comp("string", Str(s))
BoolC(b) == Comp("boolean", Bool(b))
Cmp(op) == Comp("comparator", Str(op))
Rel(k) == Comp("relpos", Str("~" \o ToString(k)))
\* Variable getters, resolved by ParseLine: \x\, -\x\ and :\x\.
Get(name) == Comp("variable", Str(name))
GetLocal(name) == Comp("local-variable", Str(name))
GetParam(name) == Comp("parameter", Str(name))

\* A line of a program: a statement, a meta tag or an empty line.
Stmt(parts) == [kind |-> "stmt", parts |-> parts, tag |-> "", arg |-> ""]
Meta(tag, arg) == [kind |-> "meta", parts |-> <<>>, tag |-> tag, arg |-> arg]
Empty == [kind |-> "empty", parts |-> <<>>, tag |-> "", arg |-> ""]

\* The text of a component used as a keyword, label or name.
Text(c) == IF c.value.k = "string" THEN c.value.s ELSE "<" \o ToStr(c.value) \o ">"

\* ------------------------------------------------------------- source text
\* A line of source text is the sequence of its characters.  The digits a
\* number literal is made of, with their values.
Digits ==
  [ d \in {"0", "1", "2", "3", "4", "5", "6", "7", "8", "9"} |->
      CASE d = "0" -> 0 [] d = "1" -> 1 [] d = "2" -> 2 [] d = "3" -> 3
        [] d = "4" -> 4 [] d = "5" -> 5 [] d = "6" -> 6 [] d = "7" -> 7
        [] d = "8" -> 8 [] OTHER -> 9 ]

\* The string the characters spell.
RECURSIVE Flat(_)
Flat(chars) ==
  IF Len(chars) = 0 THEN "" ELSE chars[1] \o Flat(Tail(chars))

\* The index of the first occurrence of the two characters `//`, 0 without
\* one.
RECURSIVE CommentAt(_, _)
CommentAt(line, i) ==
  IF i + 1 > Len(line) THEN 0
  ELSE IF line[i] = "/" /\ line[i + 1] = "/" THEN i
       ELSE CommentAt(line, i + 1)

\* static #removeISLComment: line.split("//")[0]
RemoveISLComment(line) ==
  IF CommentAt(line, 1) = 0 THEN line
  ELSE SubSeq(line, 1, CommentAt(line, 1) - 1)

\* String.prototype.trim, over the one whitespace character modelled.
RECURSIVE Trim(_)
Trim(line) ==
  IF Len(line) = 0 THEN line
  ELSE IF line[1] = " " THEN Trim(Tail(line))
       ELSE IF line[Len(line)] = " " THEN Trim(SubSeq(line, 1, Len(line) - 1))
            ELSE line

\* string.split(sep) for a one-character separator: the pieces in order.
RECURSIVE Split(_, _, _, _)
Split(chars, sep, piece, acc) ==
  IF Len(chars) = 0 THEN Append(acc, piece)
  ELSE IF chars[1] = sep THEN Split(Tail(chars), sep, << >>, Append(acc, piece))
       ELSE Split(Tail(chars), sep, Append(piece, chars[1]), acc)

\* Whether the characters are all digits, and at least one.
AllDigits(chars) ==
  /\ Len(chars) > 0
  /\ \A i \in 1..Len(chars) : chars[i] \in DOMAIN Digits

\* The number a sequence of digits spells.
RECURSIVE Decimal(_, _)
Decimal(chars, acc) ==
  IF Len(chars) = 0 THEN acc
  ELSE Decimal(Tail(chars), 10 * acc + Digits[chars[1]])

\* /^-?[0-9]+$/: an integer literal (a literal with a fraction is left to
\* IsFraction).
IsInteger(chars) ==
  IF Len(chars) > 0 /\ chars[1] = "-" THEN AllDigits(Tail(chars))
  ELSE AllDigits(chars)

\* /^-?[0-9]+\.[0-9]+$/: a number literal with a fraction, whose value the
\* model does not hold.
IsFraction(chars) ==
  \E i \in 1..Len(chars) :
    /\ chars[i] = "."
    /\ IsInteger(SubSeq(chars, 1, i - 1))
    /\ AllDigits(SubSeq(chars, i + 1, Len(chars)))

\* parseFloat of an integer literal.
ParseFloat(chars) ==
  IF chars[1] = "-" THEN 0 - Decimal(Tail(chars), 0) ELSE Decimal(chars, 0)

\* static #restoreOriginalType on {value: the characters, type: "identifier"}.
RestoreOriginalType(chars) ==
  IF Flat(chars) = "true" THEN Comp("boolean", Bool(TRUE))
  ELSE IF Flat(chars) = "false" THEN Comp("boolean", Bool(FALSE))
  ELSE IF IsInteger(chars) THEN Comp("number", Num(ParseFloat(chars)))
  ELSE IF Len(chars) > 0 /\ chars[1] = "~"
          /\ (IsInteger(Tail(chars)) \/ IsFraction(Tail(chars)))
       THEN Comp("relpos", Str(Flat(chars)))
       ELSE Comp("identifier", Str(Flat(chars)))

\* The value of a group component: its elements in order.
Group(items) == [k |-> "group", n |-> 0, s |-> "", items |-> items]

\* A variant of ISLGroup.from that does not split the text at `|`.
GroupUnsplit(chars) == Group(<< RestoreOriginalType(chars) >>)

\* ISLGroup.from(text).map(#restoreOriginalType)
GroupFrom(chars) ==
  Group([i \in 1..Len(Split(chars, "|", << >>, << >>)) |->
           RestoreOriginalType(Split(chars, "|", << >>, << >>)[i])])

\* The comparators of #literals.
Comparators == {"=", "!=", "<", ">", "in"}

\* ---------------------------------------------------------- symbol store
\* #doesVarExist
DoesVarExist(st, name) == name \in DOMAIN st.localVariables

\* #doesFuncExist
DoesFuncExist(st, name) == name \in DOMAIN st.functions

\* #hasVarBeenDeclaredInCurrentRun
HasVarBeenDeclared(st, name) == st.localVariables[name].declared

\* #hasFuncBeenDeclaredInCurrentRun
HasFuncBeenDeclared(st, name) == st.functions[name].declared

\* throw new ISLError(msg, kind), or a host error (kind "Internal")
Throw(st, kind) == [st EXCEPT !.err = kind]

\* f with the entry for key a set to v (a new key when a is not in f).
Put(f, a, v) == [x \in DOMAIN f \cup {a} |-> IF x = a THEN v ELSE f[x]]

\* f without the entry for key a.
Drop(f, a) == [x \in DOMAIN f \ {a} |-> f[x]]

\* The empty table {}.
EmptyMap == [x \in {} |-> 0]

\* A parameter frame: `defined` is FALSE for JavaScript undefined.
Frame(map) == [defined |-> TRUE, map |-> map]
EmptyFrame == Frame(EmptyMap)
NoFrame == [defined |-> FALSE, map |-> EmptyMap]

\* name:type of a parameter declaration, as param.split(":") gives it.
ParamTokens ==
  [ tok \in {"a:number", "b:string", "c:boolean"} |->
      CASE tok = "a:number" -> [name |-> "a", type |-> "number"]
        [] tok = "b:string" -> [name |-> "b", type |-> "string"]
        [] OTHER -> [name |-> "c", type |-> "boolean"] ]

SplitParam(tok) ==
  IF tok \in DOMAIN ParamTokens THEN ParamTokens[tok]
  ELSE [name |-> tok, type |-> NoType]

\* #reset: the soft reset.
Reset(st) ==
  [st EXCEPT
     !.counter = 0,
     !.localVariables = [v \in DOMAIN @ |-> [@[v] EXCEPT !.declared = FALSE]],
     !.functions = [f \in DOMAIN @ |-> [@[f] EXCEPT !.declared = FALSE]]]

\* #hardReset
HardReset(st) ==
  [st EXCEPT
     !.counter = 0,
     !.localVariables = EmptyMap,
     !.functions = EmptyMap,
     !.callstack = <<>>,
     !.parameters = EmptyFrame]

\* clearInterval(this.#executor): ends the timer #executor names, if that
\* timer is still alive.
ClearInterval(st) ==
  [st EXCEPT !.live = IF st.executor THEN @ - 1 ELSE @, !.executor = FALSE]

\* startExecution(speed, ipt): a new interval timer, stored in #executor.
StartExecutionOp(st, ipt) ==
  [st EXCEPT
     !.ipt = ipt,
     !.stopped = FALSE,
     !.executor = TRUE,
     !.live = @ + 1,
     !.oob = @ \/ st.live >= MaxTimers]

\* stopExecution
StopExecutionOp(st) == Reset(ClearInterval([st EXCEPT !.stopped = TRUE]))

\* #stopExecutionDestructive
StopExecutionDestructive(st) == HardReset(ClearInterval([st EXCEPT !.stopped = TRUE]))

\* A variant of pauseExecution that soft-resets as stopExecution does.
PauseExecutionReset(st) == Reset(ClearInterval([st EXCEPT !.stopped = TRUE]))

\* pauseExecution
PauseExecutionOp(st) == ClearInterval([st EXCEPT !.stopped = TRUE])

\* #fullReset
FullReset(st) ==
  [StopExecutionDestructive(st) EXCEPT
     !.counter = 0,
     !.lastErrorLine = 0,
     !.stopped = TRUE,
     !.executor = FALSE,
     !.listening = FALSE,
     !.waits = 0,
     !.ignored = {}]

\* #getParameterObj: the parameter object, or the error it throws.
GetParameterObj(st, name) ==
  IF ~st.parameters.defined THEN [err |-> "Internal", obj |-> Comp(NoType, Undef)]
  ELSE IF name \in DOMAIN st.parameters.map
       THEN [err |-> "none", obj |-> st.parameters.map[name]]
       ELSE [err |-> "Reference", obj |-> Comp(NoType, Undef)]

\* #getVarObj as read by a getter: {value, type}, or the error it throws.
GetVarObj(st, name) ==
  IF name \in DOMAIN st.localVariables
  THEN [err |-> "none",
        obj |-> Comp(st.localVariables[name].type, st.localVariables[name].value)]
  ELSE [err |-> "Reference", obj |-> Comp(NoType, Undef)]

\* #toParameterObjects: [err, frame]; an undefined frame for func = "".
RECURSIVE BuildParams(_, _, _, _)
BuildParams(expected, parameters, p, map) ==
  IF p > Len(parameters) THEN [err |-> "none", frame |-> Frame(map)]
  ELSE IF expected[p].type # parameters[p].type
       THEN [err |-> "Type", frame |-> NoFrame]
       ELSE IF expected[p].name \in DOMAIN map
            THEN [err |-> "Internal", frame |-> NoFrame]
            ELSE BuildParams(expected, parameters, p + 1,
                             Put(map, expected[p].name,
                                 Comp(parameters[p].type, parameters[p].value)))

\* A variant of #toParameterObjects that accepts too few arguments.
ToParameterObjectsShort(st, func, parameters) ==
  IF func = "" THEN [err |-> "none", frame |-> NoFrame]
  ELSE IF ~DoesFuncExist(st, func) THEN [err |-> "Reference", frame |-> NoFrame]
       ELSE LET expected == st.functions[func].params IN
            IF Len(parameters) > Len(expected)
            THEN [err |-> "Syntax", frame |-> NoFrame]
            ELSE BuildParams(expected, parameters, 1, EmptyMap)

ToParameterObjects(st, func, parameters) ==
  IF func = "" THEN [err |-> "none", frame |-> NoFrame]
  ELSE IF ~DoesFuncExist(st, func) THEN [err |-> "Reference", frame |-> NoFrame]
       ELSE LET expected == st.functions[func].params IN
            IF Len(parameters) # Len(expected)
            THEN [err |-> "Syntax", frame |-> NoFrame]
            ELSE BuildParams(expected, parameters, 1, EmptyMap)

\* ------------------------------------------------- labels and descriptors
\* static #labels: each built-in label with the keywords it applies to.
Labels ==
  [ l \in {"non-destructive", "separated", "grouped"} |->
      CASE l = "non-destructive" -> {"restart"}
        [] l = "separated" -> {"flush"}
        [] OTHER -> {"getkeys"} ]

\* static #isLabel
IsLabel(name) == name \in DOMAIN Labels

\* static #isLabelFor
IsLabelFor(name, keyword) == name \in DOMAIN Labels /\ keyword \in Labels[name]

\* get #customLabels: the labels of the registered extensions, in order.
RECURSIVE CustomLabels(_)
CustomLabels(extensions) ==
  IF Len(extensions) = 0 THEN << >>
  ELSE extensions[1].labels \o CustomLabels(Tail(extensions))

\* #isOwnLabel
IsOwnLabel(st, name) ==
  \E i \in 1..Len(CustomLabels(st.extensions)) :
    CustomLabels(st.extensions)[i].label = name

\* #isOwnLabelFor
IsOwnLabelFor(st, name, keyword) ==
  \E i \in 1..Len(CustomLabels(st.extensions)) :
    /\ CustomLabels(st.extensions)[i].label = name
    /\ keyword \in CustomLabels(st.extensions)[i].for

\* static #deprecated: the keywords #handleDeprecatedFeature answers for.
Deprecated == {"webprompt", "declare", "flush"}

\* A descriptor {type, optional, recurring}; type holds the `|` alternatives.
Desc(types) == [types |-> types, optional |-> FALSE, recurring |-> FALSE]
Recurring(types) == [types |-> types, optional |-> FALSE, recurring |-> TRUE]
Optional(types) == [types |-> types, optional |-> TRUE, recurring |-> FALSE]

\* The descriptors of #defaultKeywords, for the keywords modelled.
Descriptors ==
  [ k \in {"var", "number", "string", "function", "delete", "end", "execute",
           "set", "add", "subtract", "multiply", "divide", "round", "negate",
           "log", "awaitkey", "getkeys", "restart", "stop", "pause", "if",
           "jump"} |->
      CASE k \in {"var", "number", "string", "function", "delete", "end",
                  "execute", "round", "negate"} -> << Desc({"identifier"}) >>
        [] k \in {"set", "add"} -> << Desc({"identifier"}), Desc({"any"}) >>
        [] k \in {"subtract", "multiply", "divide"} ->
             << Desc({"identifier"}), Desc({"number"}) >>
        [] k = "log" -> << Recurring({"any"}) >>
        [] k \in {"awaitkey", "getkeys"} ->
             << Desc({"identifier"}), Desc({"keyword"}) >>
        [] k = "pause" -> << Desc({"number"}) >>
        [] k = "if" -> << Desc({"any"}), Desc({"comparator"}), Desc({"any"}),
                          Recurring({"any"}) >>
        [] k = "jump" -> << Desc({"number", "relpos"}) >>
        [] OTHER -> << >> ]

\* The keywords of #defaultKeywords that are modelled.
DefaultKeywords == DOMAIN Descriptors

\* #validateDescriptor: the kind of the error it throws, or "none".
ValidateDescriptor(present, input, descriptor) ==
  IF ~descriptor.optional /\ ~present THEN "Type"
  ELSE IF (IF present THEN input.type ELSE "undefined") \notin descriptor.types
          /\ descriptor.types # {"any"}
       THEN "Type"
       ELSE "none"

\* The descriptor loop of #executeStatement over parts (parts[1] is the
\* keyword): index is the loop's 0-based index, len its current bound.
RECURSIVE ValidateAll(_, _, _, _, _, _)
ValidateAll(parts, descs, index, len, fallback, hasFallback) ==
  IF index >= len THEN "none"
  ELSE LET own == index + 1 <= Len(descs)
           has == own \/ hasFallback
           descriptor == IF own THEN descs[index + 1] ELSE fallback
           widen == own /\ descs[index + 1].recurring /\ index + 1 <= Len(parts)
           len2 == IF widen THEN Len(parts) - 1 ELSE len
           present == index + 2 <= Len(parts)
           res == IF has
                  THEN ValidateDescriptor(present,
                         IF present THEN parts[index + 2] ELSE Comp("undefined", Undef),
                         descriptor)
                  ELSE "none"
       IN IF res # "none" THEN res
          ELSE ValidateAll(parts, descs, index + 1, len2,
                           IF widen THEN descriptor ELSE fallback,
                           hasFallback \/ widen)

\* ------------------------------------------------------ keyword callbacks
\* A variant of #isl_declare("var", ...) that overwrites an existing variable.
IslDeclareVarOverwrite(st, name, initialValue, type) ==
  [st EXCEPT !.localVariables =
     Put(@, name, [value |-> initialValue, type |-> type, declared |-> TRUE])]

\* #isl_declare("var", name, initialValue, type)
IslDeclareVar(st, name, initialValue, type) ==
  IF DoesVarExist(st, name) /\ HasVarBeenDeclared(st, name)
  THEN Throw(st, "Reference")
  ELSE [st EXCEPT !.localVariables =
          Put(@, name, [value |-> initialValue, type |-> type, declared |-> TRUE])]

\* #isl_declare("cmd", name, undefined, "function", functionParameters)
IslDeclareCmd(st, name, functionParameters) ==
  IF DoesFuncExist(st, name) /\ HasFuncBeenDeclared(st, name)
  THEN Throw(st, "Reference")
  ELSE IF \E i \in 1..Len(functionParameters) : functionParameters[i].value.k # "string"
       THEN Throw(st, "Internal")
       ELSE [st EXCEPT
               !.functions = Put(@, name,
                  [indexStart |-> st.counter, indexEnd |-> 0 - 1, declared |-> TRUE,
                   ended |-> FALSE,
                   params |-> [i \in 1..Len(functionParameters) |->
                                 SplitParam(functionParameters[i].value.s)]]),
               !.skipping = TRUE]

\* #isl_delete
IslDelete(st, name) ==
  IF ~DoesVarExist(st, name) THEN Throw(st, "Reference")
  ELSE [st EXCEPT !.localVariables = Drop(@, name)]

\* The frame #isl_end restores parameters from, with the call stack as it
\* is after the pop.
Continuing(callstack) ==
  IF Len(callstack) > 0 THEN callstack[1]
  ELSE [calledFrom |-> 0, func |-> "", params |-> << >>]

\* #isl_end
IslEnd(st, name) ==
  IF ~DoesFuncExist(st, name) THEN Throw(st, "Reference")
  ELSE LET st1 == [st EXCEPT !.functions[name].indexEnd = st.counter] IN
       IF st1.functions[name].ended
       THEN LET popped == Len(st1.callstack) > 0
                rest == IF popped THEN SubSeq(st1.callstack, 1, Len(st1.callstack) - 1)
                        ELSE st1.callstack
                continuing == Continuing(rest)
                st2 == [st1 EXCEPT
                          !.callstack = rest,
                          !.counter = IF popped
                                      THEN st1.callstack[Len(st1.callstack)].calledFrom
                                      ELSE @]
                r == ToParameterObjects(st2, continuing.func, continuing.params)
            IN IF r.err # "none" THEN Throw(st2, r.err)
               ELSE [st2 EXCEPT !.parameters = r.frame]
       ELSE [st1 EXCEPT !.functions[name].ended = TRUE]

\* #isl_execute
IslExecute(st, func, inParameters) ==
  IF ~DoesFuncExist(st, func) THEN Throw(st, "Reference")
  ELSE LET st1 == [st EXCEPT
                     !.callstack = Append(@, [calledFrom |-> st.counter, func |-> func,
                                              params |-> inParameters]),
                     !.oob = @ \/ Len(st.callstack) >= MaxDepth]
           r == ToParameterObjects(st1, func, inParameters)
       IN IF r.err # "none" THEN Throw(st1, r.err)
          ELSE [st1 EXCEPT !.parameters = r.frame,
                           !.counter = st1.functions[func].indexStart]

\* A store that writes through to a global variable of the same name.
StoreGlobal(st, variable, v) ==
  [st EXCEPT !.localVariables[variable].value = v,
             !.globalVariables =
               IF variable \in DOMAIN @ THEN [@ EXCEPT ![variable].value = v]
               ELSE @,
             !.oob = @ \/ ~InBounds(v)]

\* Store value v in variable `variable` (the tag is left as it is).
Store(st, variable, v) ==
  [st EXCEPT !.localVariables[variable].value = v,
             !.oob = @ \/ ~InBounds(v)]

\* #isl_add: value is the {type, value} object the caller passes.
IslAdd(st, variable, value) ==
  IF ~DoesVarExist(st, variable) THEN Throw(st, "Reference")
  ELSE IF st.localVariables[variable].type \notin {"number", "string"}
       THEN Throw(st, "Type")
       ELSE Store(st, variable, JsAdd(st.localVariables[variable].value, value.value))

\* #isl_sub
IslSub(st, variable, value) ==
  IF ~DoesVarExist(st, variable) THEN Throw(st, "Reference")
  ELSE IF st.localVariables[variable].type # "number" THEN Throw(st, "Type")
       ELSE Store(st, variable, JsSub(st.localVariables[variable].value, value.value))

\* #isl_mult
IslMult(st, variable, value) ==
  IF ~DoesVarExist(st, variable) THEN Throw(st, "Reference")
  ELSE IF st.localVariables[variable].type # "number" THEN Throw(st, "Type")
       ELSE Store(st, variable, JsMul(st.localVariables[variable].value, value.value))

\* #isl_div
IslDiv(st, variable, value) ==
  IF ~DoesVarExist(st, variable) THEN Throw(st, "Reference")
  ELSE IF st.localVariables[variable].type # "number" THEN Throw(st, "Type")
       ELSE [Store(st, variable, JsDiv(st.localVariables[variable].value, value.value))
               EXCEPT !.oob = @ \/ ~DivExact(st.localVariables[variable].value, value.value)]

\* A variant of #isl_set that stores the value whatever its tag.
IslSetUnchecked(st, variable, value) ==
  IF ~DoesVarExist(st, variable) THEN Throw(st, "Reference")
  ELSE Store(st, variable, value.value)

\* #isl_set: value is the {type, value} object the caller passes.
IslSet(st, variable, value) ==
  IF ~DoesVarExist(st, variable) THEN Throw(st, "Reference")
  ELSE LET st1 == IF st.localVariables[variable].type = NoType
                  THEN [st EXCEPT !.localVariables[variable].type = value.type]
                  ELSE st
       IN IF st1.localVariables[variable].type # value.type THEN Throw(st1, "Type")
          ELSE Store(st1, variable, value.value)

\* #isl_round
IslRound(st, variable) ==
  IF ~DoesVarExist(st, variable) THEN Throw(st, "Reference")
  ELSE IF st.localVariables[variable].type # "number" THEN Throw(st, "Type")
       ELSE Store(st, variable, JsRound(st.localVariables[variable].value))

\* #isl_negate
IslNegate(st, variable) ==
  IF ~DoesVarExist(st, variable) THEN Throw(st, "Reference")
  ELSE IF st.localVariables[variable].type # "number" THEN Throw(st, "Type")
       ELSE Store(st, variable, JsNeg(st.localVariables[variable].value))

\* #isl_awaitkey
IslAwaitkey(st, variable, type) ==
  IF ~DoesVarExist(st, variable) THEN Throw(st, "Reference")
  ELSE [st EXCEPT !.listening = TRUE, !.listenerTarget = variable,
                  !.listenerType = type]

\* keys.join(sep) over the pressed keys in insertion order.
RECURSIVE Join(_, _)
Join(keys, sep) ==
  IF Len(keys) = 0 THEN ""
  ELSE IF Len(keys) = 1 THEN keys[1]
       ELSE keys[1] \o sep \o Join(Tail(keys), sep)

\* #isl_getkeys
IslGetkeys(st, variable, type) ==
  IF ~DoesVarExist(st, variable) THEN Throw(st, "Reference")
  ELSE LET output == IF \E i \in 1..Len(st.currentLabels) : st.currentLabels[i] = "grouped"
                     THEN "[" \o Join(st.pressed, "|") \o "]"
                     ELSE Join(st.pressed, ",")
       IN IF st.localVariables[variable].type # "string" THEN Throw(st, "Type")
          ELSE IF type = "add"
               THEN Store(st, variable,
                          JsAdd(st.localVariables[variable].value, Str(output)))
               ELSE IF type = "set" THEN Store(st, variable, Str(output))
                    ELSE Throw(st, "Syntax")

\* A variant of #goToLine that forgets the increment #executeISL adds.
GoToLineNoAdjust(st, line) ==
  IF line.type = "relpos"
  THEN [st EXCEPT !.counter = @ + (CHOOSE k \in NumRange : line.value.s = "~" \o ToString(k))]
  ELSE [st EXCEPT !.counter = line.value.n - 1]

\* #goToLine
GoToLine(st, line) ==
  IF line.type = "relpos"
  THEN [st EXCEPT !.counter = @ + (CHOOSE k \in NumRange : line.value.s = "~" \o ToString(k)) - 1]
  ELSE [st EXCEPT !.counter = line.value.n - 1 - 1]

\* #defaultKeywords.restart
KwRestart(st) ==
  StartExecutionOp(
    IF \E i \in 1..Len(st.currentLabels) : st.currentLabels[i] = "non-destructive"
    THEN StopExecutionOp(st) ELSE StopExecutionDestructive(st),
    st.ipt)

\* #defaultKeywords.pause
KwPause(st, delay) ==
  [st EXCEPT !.waits = @ + delay.value.n, !.oob = @ \/ st.waits + delay.value.n > MaxNum]

\* Whether #compare and its caller are modelled for these operands.
CompareModelled(val1, operator, val2) ==
  /\ operator \in {"=", "!=", "<", ">"}
  /\ operator \in {"<", ">"} => ~(val1.k = "string" /\ val2.k = "string")

\* #compare
Compare(val1, operator, val2) ==
  CASE operator = "=" -> val1 = val2 /\ ~IsNaN(val1)
    [] operator = "!=" -> ~(val1 = val2 /\ ~IsNaN(val1))
    [] operator = "<" -> /\ ~IsNaN(ToNum(val1)) /\ ~IsNaN(ToNum(val2))
                         /\ ToNum(val1).n < ToNum(val2).n
    [] operator = ">" -> /\ ~IsNaN(ToNum(val1)) /\ ~IsNaN(ToNum(val2))
                         /\ ToNum(val1).n > ToNum(val2).n
    [] OTHER -> FALSE

\* -------------------------------------------------- statement dispatcher
\* The label loop of #executeStatement: [st, parts] once the leading labels
\* are pushed on #currentLabels; a host error when only labels are left.
RECURSIVE StripLabels(_, _)
StripLabels(st, parts) ==
  IF Len(parts) = 0 THEN [st |-> Throw(st, "Internal"), parts |-> parts]
  ELSE IF IsLabel(Text(parts[1])) \/ (IsOwnLabel(st, Text(parts[1])) /\ Len(parts) >= 2)
       THEN StripLabels([st EXCEPT !.currentLabels = Append(@, Text(parts[1]))],
                        Tail(parts))
       ELSE [st |-> st, parts |-> parts]

\* A variant in which every label applies to every keyword.
LabelsAccepted(st, keyword) == TRUE

\* Whether every current label applies to the keyword.
LabelsApply(st, keyword) ==
  \A i \in 1..Len(st.currentLabels) :
    \/ IsLabelFor(st.currentLabels[i], keyword)
    \/ IsOwnLabelFor(st, st.currentLabels[i], keyword)

RECURSIVE ExecuteStatement(_, _)

\* #isl_if
IslIf(st, val1, operator, val2, code) ==
  IF ~CompareModelled(val1, operator, val2) THEN [st EXCEPT !.oob = TRUE]
  ELSE IF Compare(val1, operator, val2) THEN ExecuteStatement(st, code)
       ELSE st

\* dkeyword.callback.apply(this, [this.#currentLabels, ...inputs])
Callback(st, keyword, inputs) ==
  CASE keyword = "var" -> IslDeclareVar(st, Text(inputs[1]), Null, NoType)
    [] keyword = "number" -> IslDeclareVar(st, Text(inputs[1]), Num(0), "number")
    [] keyword = "string" -> IslDeclareVar(st, Text(inputs[1]), Str(""), "string")
    [] keyword = "function" -> IslDeclareCmd(st, Text(inputs[1]), Tail(inputs))
    [] keyword = "delete" -> IslDelete(st, Text(inputs[1]))
    [] keyword = "end" -> IslEnd(st, Text(inputs[1]))
    [] keyword = "execute" -> IslExecute(st, Text(inputs[1]), Tail(inputs))
    [] keyword = "set" -> IslSet(st, Text(inputs[1]), inputs[2])
    [] keyword = "add" -> IslAdd(st, Text(inputs[1]), inputs[2])
    [] keyword = "subtract" -> IslSub(st, Text(inputs[1]), inputs[2])
    [] keyword = "multiply" -> IslMult(st, Text(inputs[1]), inputs[2])
    [] keyword = "divide" -> IslDiv(st, Text(inputs[1]), inputs[2])
    [] keyword = "round" -> IslRound(st, Text(inputs[1]))
    [] keyword = "negate" -> IslNegate(st, Text(inputs[1]))
    [] keyword = "log" -> st
    [] keyword = "awaitkey" -> IslAwaitkey(st, Text(inputs[1]), Text(inputs[2]))
    [] keyword = "getkeys" -> IslGetkeys(st, Text(inputs[1]), Text(inputs[2]))
    [] keyword = "restart" -> KwRestart(st)
    [] keyword = "stop" -> FullReset(st)
    [] keyword = "pause" -> KwPause(st, inputs[1])
    [] keyword = "if" -> IslIf(st, inputs[1].value, Text(inputs[2]), inputs[3].value,
                               SubSeq(inputs, 4, Len(inputs)))
    [] keyword = "jump" -> GoToLine(st, inputs[1])
    [] OTHER -> st

\* The callback of `keyword` is applied to inputs: source is the id of the
\* extension it belongs to, "" for a built-in keyword.
Invoked(st, keyword, inputs, source) ==
  [st EXCEPT !.disp = [kw |-> keyword, inputs |-> inputs, source |-> source,
                       count |-> st.disp.count + 1]]

\* The custom-keyword branch of #executeStatement: the callback of an
\* extension changes nothing in the interpreter.
DispatchCustom(st, parts) ==
  LET keyword == Text(parts[1])
      descs == st.customKeywords[keyword].descriptors
      res == ValidateAll(parts, descs, 0, Len(descs), Desc({}), FALSE)
  IN IF res # "none" THEN Throw(st, res)
     ELSE [Invoked(st, keyword, Tail(parts), st.customKeywords[keyword].source)
             EXCEPT !.currentLabels = << >>]

\* The non-skipping branch of #executeStatement.
Dispatch(st, parts) ==
  LET keyword == Text(parts[1]) IN
  IF keyword \in Deprecated THEN st
  ELSE IF keyword \notin DefaultKeywords
       THEN IF keyword \in DOMAIN st.customKeywords THEN DispatchCustom(st, parts)
            ELSE Throw(st, "Syntax")
       ELSE LET descs == Descriptors[keyword]
                res == ValidateAll(parts, descs, 0, Len(descs), Desc({}), FALSE)
            IN IF res # "none" THEN Throw(st, res)
               ELSE LET st1 == Callback(Invoked(st, keyword, Tail(parts), ""),
                                        keyword, Tail(parts))
                    IN IF st1.err # "none" THEN st1
                       ELSE [st1 EXCEPT !.currentLabels = << >>]

\* The skipping branch of #executeStatement.
Skip(st, parts) ==
  IF Text(parts[1]) # "end" THEN st
  ELSE IF Len(parts) < 2 THEN Throw(st, "Internal")
       ELSE LET st1 == IslEnd(st, Text(parts[2])) IN
            IF st1.err # "none" THEN st1
            ELSE [st1 EXCEPT !.skipping = FALSE]

\* #executeStatement
ExecuteStatement(st, statementArray) ==
  IF Len(statementArray) = 0 THEN Throw(st, "Internal")
  ELSE IF Text(statementArray[1]) \in st.ignored THEN st
       ELSE LET s == StripLabels(st, statementArray) IN
            IF s.st.err # "none" THEN s.st
            ELSE IF ~LabelsApply(s.st, Text(s.parts[1])) THEN Throw(s.st, "Syntax")
                 ELSE IF s.st.skipping THEN Skip(s.st, s.parts)
                      ELSE Dispatch(s.st, s.parts)

\* The variable getters of #parseLine: [err, parts] with each getter of
\* parts replaced by the {value, type} it resolves to.
RECURSIVE ResolveParts(_, _, _)
ResolveParts(st, parts, acc) ==
  IF Len(parts) = 0 THEN [err |-> "none", parts |-> acc]
  ELSE LET c == parts[1]
           name == Text(c)
           viaParam == GetParameterObj(st, name)
           r == IF c.type = "parameter" THEN viaParam
                ELSE IF Len(st.callstack) > 0 /\ c.type # "local-variable"
                        /\ viaParam.err = "none"
                     THEN viaParam
                     ELSE GetVarObj(st, name)
           resolved == Comp(IF r.obj.type = NoType THEN c.type ELSE r.obj.type,
                            r.obj.value)
       IN IF c.type \notin {"variable", "local-variable", "parameter"}
          THEN ResolveParts(st, Tail(parts), Append(acc, c))
          ELSE IF r.err # "none" THEN [err |-> r.err, parts |-> acc]
               ELSE ResolveParts(st, Tail(parts),
                                 IF resolved.value.k = "null" THEN acc
                                 ELSE Append(acc, resolved))

\* #parseLine on a tokenised statement.
ParseLine(st, parts) ==
  IF st.skipping THEN ExecuteStatement(st, parts)
  ELSE LET r == ResolveParts(st, parts, << >>) IN
       IF r.err # "none" THEN Throw(st, r.err)
       ELSE ExecuteStatement(st, r.parts)

\* #parseMeta, for the ignore tag with one keyword.
ParseMeta(st, tag, arg) ==
  IF tag = "ignore" THEN [st EXCEPT !.ignored = @ \cup {arg}] ELSE st

\* #executeLineInternal
ExecuteLineInternal(st, line) ==
  CASE line.kind = "empty" -> st
    [] line.kind = "meta" -> ParseMeta(st, line.tag, line.arg)
    [] OTHER -> ParseLine(st, line.parts)

\* ------------------------------------------------------------- tokeniser
\* #getGlobalVarObj
GetGlobalVarObj(st, name) ==
  IF name \in DOMAIN st.globalVariables
  THEN [err |-> "none", obj |-> st.globalVariables[name]]
  ELSE [err |-> "Reference", obj |-> Comp(NoType, Undef)]

\* The locals of #parseLine: err is the kind of the error thrown, oob is set
\* for a literal whose value the model does not hold.
Parser ==
  [inQuotes |-> FALSE, inSquareBrackets |-> FALSE, inBackslashes |-> FALSE,
   currentComponent |-> << >>, currentType |-> "identifier",
   components |-> << >>, err |-> "none", oob |-> FALSE]

\* isComponent(currentComponent)
IsComponent(pz) ==
  Len(pz.currentComponent) > 0 \/ pz.currentType # "identifier"

\* The loop over #literals in addComponent: a later type that accepts the
\* text replaces an earlier one (comparator, keyword, then the types of the
\* extensions, of which at most one accepts a given text).
Literal(st, obj) ==
  IF obj.type # "identifier" THEN obj
  ELSE IF \E ty \in DOMAIN st.literals : obj.value.s \in st.literals[ty]
       THEN Comp(CHOOSE ty \in DOMAIN st.literals : obj.value.s \in st.literals[ty],
                 obj.value)
       ELSE IF obj.value.s \in DefaultKeywords \cup DOMAIN st.customKeywords
            THEN Comp("keyword", obj.value)
            ELSE IF obj.value.s \in Comparators THEN Comp("comparator", obj.value)
                 ELSE obj

\* The object addComponent(currentComponent) builds from the current text
\* and type.
Converted(st, pz) ==
  IF pz.currentType # "identifier"
  THEN Comp(pz.currentType, Str(Flat(pz.currentComponent)))
  ELSE Literal(st, RestoreOriginalType(pz.currentComponent))

\* The end of addComponent: obj is pushed unless its value is null, and the
\* current component and type are reset.
Push(pz, obj) ==
  IF ~IsComponent(pz) THEN pz
  ELSE [pz EXCEPT
          !.components = IF obj.value.k = "null" THEN @ ELSE Append(@, obj),
          !.currentType = "identifier",
          !.currentComponent = << >>]

\* addComponent(currentComponent)
AddComponent(st, pz) ==
  [Push(pz, Converted(st, pz)) EXCEPT
     !.oob = @ \/ (pz.currentType = "identifier" /\ IsFraction(pz.currentComponent))]

\* removeComponent()
RemoveComponent(pz) ==
  [pz EXCEPT !.components = IF Len(@) = 0 THEN @ ELSE SubSeq(@, 1, Len(@) - 1)]

\* The type of the getter an opening backslash at line[index] starts.
GetterType(line, index) ==
  IF index + 1 <= Len(line) /\ line[index + 1] = "_" THEN "global-variable"
  ELSE IF index > 1 /\ line[index - 1] = ":" THEN "parameter"
       ELSE IF index > 1 /\ line[index - 1] = "-" THEN "local-variable"
            ELSE "variable"

\* The opening backslash at line[index], once addComponent has left pz.
OpenGetter(pz, line, index) ==
  [(IF index > 1 /\ line[index - 1] \in {"-", ":"} THEN RemoveComponent(pz) ELSE pz)
     EXCEPT !.inBackslashes = TRUE, !.currentType = GetterType(line, index)]

\* A variant of the lookup in which every getter reads the local variable.
LookupLocal(st, type, name) == GetVarObj(st, Flat(name))

\* The object a closing backslash looks up: [err, obj].
Lookup(st, type, name) ==
  IF type = "global-variable" THEN GetGlobalVarObj(st, Flat(Tail(name)))
  ELSE IF type = "parameter" THEN GetParameterObj(st, Flat(name))
       ELSE IF Len(st.callstack) > 0 /\ type # "local-variable"
                 /\ GetParameterObj(st, Flat(name)).err = "none"
            THEN GetParameterObj(st, Flat(name))
            ELSE GetVarObj(st, Flat(name))

\* The closing backslash, once the lookup has given r.
CloseGetter(pz, r) ==
  IF r.err # "none" THEN [pz EXCEPT !.err = r.err]
  ELSE Push([pz EXCEPT !.inBackslashes = FALSE],
            Comp(IF r.obj.type = NoType THEN pz.currentType ELSE r.obj.type,
                 r.obj.value))

\* The types a getter in progress can have.
GetterTypes == {"variable", "local-variable", "parameter", "global-variable"}

\* One turn of the character loop of #parseLine, for line[index].
ParseChar(st, line, index, pz) ==
  IF line[index] = " " /\ ~pz.inQuotes /\ ~pz.inSquareBrackets
  THEN AddComponent(st, pz)
  ELSE IF st.skipping
       THEN [pz EXCEPT !.currentComponent = Append(@, line[index])]
  ELSE IF line[index] = "\"" /\ ~pz.inQuotes
       THEN [AddComponent(st, pz) EXCEPT !.inQuotes = TRUE, !.currentType = "string"]
  ELSE IF line[index] = "\""
       THEN IF pz.currentType # "string" THEN [pz EXCEPT !.err = "Syntax"]
            ELSE [AddComponent(st, pz) EXCEPT !.inQuotes = FALSE]
  ELSE IF line[index] = "\\" /\ ~pz.inQuotes /\ ~pz.inSquareBrackets
          /\ ~pz.inBackslashes
       THEN OpenGetter(AddComponent(st, pz), line, index)
  ELSE IF line[index] = "\\" /\ ~pz.inQuotes /\ ~pz.inSquareBrackets
       THEN IF pz.currentType \notin GetterTypes THEN [pz EXCEPT !.err = "Syntax"]
            ELSE CloseGetter(pz, Lookup(st, pz.currentType, pz.currentComponent))
  ELSE IF line[index] = "[" /\ ~pz.inQuotes /\ ~pz.inSquareBrackets
       THEN [AddComponent(st, pz) EXCEPT !.inSquareBrackets = TRUE,
                                         !.currentType = "group"]
  ELSE IF line[index] = "]" /\ ~pz.inQuotes /\ pz.inSquareBrackets
       THEN IF pz.currentType # "group" THEN [pz EXCEPT !.err = "Syntax"]
            ELSE Push([pz EXCEPT !.inSquareBrackets = FALSE],
                      Comp("group", GroupFrom(pz.currentComponent)))
  ELSE [pz EXCEPT !.currentComponent = Append(@, line[index])]

\* The character loop of #parseLine from line[index] on.
RECURSIVE ParseFrom(_, _, _, _)
ParseFrom(st, line, index, pz) ==
  IF pz.err # "none" \/ index > Len(line) THEN pz
  ELSE ParseFrom(st, line, index + 1, ParseChar(st, line, index, pz))

\* The end of #parseLine once the loop has left pz: the last component, the
\* final validation, and the statement handed to #executeStatement.
Parsed(st, pz) ==
  IF pz.err # "none" THEN Throw(st, pz.err)
  ELSE IF pz.inQuotes \/ pz.inSquareBrackets \/ pz.inBackslashes
       THEN Throw(st, "Syntax")
       ELSE ExecuteStatement([st EXCEPT !.oob = @ \/ pz.oob], pz.components)

\* The last addComponent of #parseLine.
LastComponent(st, pz) ==
  IF pz.err # "none" THEN pz ELSE AddComponent(st, pz)

\* #parseLine on the characters of a line.
ParseSource(st, line) ==
  Parsed(st, LastComponent(st, ParseFrom(st, line, 1, Parser)))

\* /^\[.*\]$/
IsMetaTag(line) ==
  Len(line) >= 2 /\ line[1] = "[" /\ line[Len(line)] = "]"

\* The words of the value of a meta tag, as value.split(" ") gives them.
Words(value) ==
  { Flat(Split(value, " ", << >>, << >>)[i]) :
      i \in 1..Len(Split(value, " ", << >>, << >>)) }

\* #hasExtensionWithId
HasExtensionWithId(st, id) ==
  \E i \in 1..Len(st.extensions) : st.extensions[i].id = id

\* #parseMeta once the tag is split from its value (the characters after the
\* first space).
MetaTag(st, tag, value) ==
  CASE tag = "require" ->
         IF HasExtensionWithId(st, Flat(value)) THEN st ELSE Throw(st, "Environment")
    [] tag = "ignore" ->
         IF Flat(value) \in st.ignored THEN st
         ELSE [st EXCEPT !.ignored = @ \cup Words(value)]
    [] tag \in {"environment", "env"} ->
         IF Flat(value) = "js" THEN st ELSE Throw(st, "Environment")
    [] tag = "display" ->
         IF Len(value) > 0 THEN st ELSE Throw(st, "Internal")
    [] OTHER -> st

\* #parseMeta on the characters of a tag line: meta is the text between the
\* brackets.
ParseMetaSource(st, meta) ==
  LET parts == Split(meta, " ", << >>, << >>) IN
  MetaTag(st, Flat(parts[1]),
          IF Len(parts) = 1 THEN << >>
          ELSE SubSeq(meta, Len(parts[1]) + 2, Len(meta)))

\* #executeLineInternal on a string, once the comment is removed and the
\* rest trimmed.
ExecuteTrimmed(st, noComment) ==
  IF Len(noComment) = 0 THEN st
  ELSE IF IsMetaTag(noComment)
       THEN ParseMetaSource(st, SubSeq(noComment, 2, Len(noComment) - 1))
       ELSE ParseSource(st, noComment)

\* #executeLineInternal on the characters of a line.
ExecuteSource(st, line) ==
  IF Len(line) = 0 THEN st
  ELSE ExecuteTrimmed(st, Trim(RemoveISLComment(line)))

\* -------------------------------------------------------------- iteration
\* The iterator state while no iteration is active.
NoIterator ==
  [active |-> FALSE, functionName |-> "", sourceGroup |-> << >>, index |-> 0]

\* The call of the iterated function with element index of the group.
Invoke(st, index) ==
  IslExecute([st EXCEPT !.iterator.index = index], st.iterator.functionName,
             << st.iterator.sourceGroup[index] >>)

\* The first call of an iteration has left r: an iteration whose first call
\* fails is not started.
Started(st, r) ==
  IF r.err # "none" THEN [r EXCEPT !.iterator = st.iterator] ELSE r

\* A variant of the start of an iteration that replaces an iteration that
\* is active.
IslIterateAgain(st, group, func) ==
  IF ~DoesFuncExist(st, func) THEN Throw(st, "Reference")
  ELSE IF Len(st.functions[func].params) = 0 THEN Throw(st, "Type")
  ELSE IF Len(group) = 0 THEN st
  ELSE Invoke([st EXCEPT !.iterator = [active |-> TRUE, functionName |-> func,
                                       sourceGroup |-> group, index |-> 1]], 1)

\* `iterate <group> with <fn>`: fails while an iteration is active;
\* otherwise the function is called with the first element of the group.
IslIterate(st, group, func) ==
  IF st.iterator.active THEN Throw(st, "Syntax")
  ELSE IF ~DoesFuncExist(st, func) THEN Throw(st, "Reference")
  ELSE IF Len(st.functions[func].params) = 0 THEN Throw(st, "Type")
  ELSE IF Len(group) = 0 THEN st
  ELSE Started(st, Invoke([st EXCEPT !.iterator =
                             [active |-> TRUE, functionName |-> func,
                              sourceGroup |-> group, index |-> 1]], 1))

\* The statement `iterate <group> with <fn>` as the dispatcher treats it:
\* inert while a function declaration is being skipped.
IterateStatement(st, group, func) ==
  IF st.skipping THEN st ELSE IslIterate(st, group, func)

\* A later call of an iteration has left r: an iteration whose call fails
\* is over.
Continued(r) ==
  IF r.err # "none" THEN [r EXCEPT !.iterator = NoIterator] ELSE r

\* The return from a call of func once `end` has unwound it to st1: while
\* the iteration of func has elements left the function is called with the
\* next one, and after the last the iteration is over.
ReturnFromCall(st, st1, func) ==
  IF st1.err # "none" \/ st.skipping \/ Len(st.callstack) = 0
     \/ ~st1.iterator.active \/ st1.iterator.functionName # func
  THEN st1
  ELSE IF st1.iterator.index < Len(st1.iterator.sourceGroup)
       THEN Continued(Invoke(st1, st1.iterator.index + 1))
       ELSE [st1 EXCEPT !.iterator = NoIterator]

\* ------------------------------------------------------------ extensions
\* A variant of the assignment in which an entry that exists is kept.
MergeKeep(old, new) ==
  [ k \in DOMAIN old \cup DOMAIN new |-> IF k \in DOMAIN old THEN old[k] ELSE new[k] ]

\* Object assignment key by key: the entries of new replace those of old.
Merge(old, new) ==
  [ k \in DOMAIN old \cup DOMAIN new |-> IF k \in DOMAIN new THEN new[k] ELSE old[k] ]

\* The entries extend writes to #customKeywords for extension e.
KeywordsOf(e) ==
  [ w \in DOMAIN e.keywords |-> [descriptors |-> e.keywords[w], source |-> e.id] ]

\* A variant of extend that checks the identifier after the merge.
ExtendLate(st, e) ==
  [st EXCEPT
     !.extensions = IF e.id = "" THEN @ ELSE Append(@, e),
     !.customKeywords = Merge(@, KeywordsOf(e)),
     !.globalVariables = Merge(@, e.variables),
     !.literals = Merge(@, e.types),
     !.err = IF e.id = "" THEN "Environment" ELSE @]

\* extend(extension): an extension without identifier is thrown out before
\* anything is merged.
ExtendOp(st, e) ==
  IF e.id = "" THEN Throw(st, "Environment")
  ELSE [st EXCEPT
          !.extensions = Append(@, e),
          !.customKeywords = Merge(@, KeywordsOf(e)),
          !.globalVariables = Merge(@, e.variables),
          !.literals = Merge(@, e.types)]

\* ------------------------------------------------------------- scheduler
VARIABLES
  isl,              \* #isl: the loaded lines
  loaded,           \* #loaded
  counter,          \* #counter: 0-based index of the next line
  stopped,          \* #stopped
  live,             \* the number of interval timers alive
  executor,         \* whether #executor names a timer that is alive
  ipt,              \* #instructionsAtOnce
  localVariables,   \* #localVariables: name -> {value, type, declared}
  functions,        \* #functions: name -> {indexStart, indexEnd, declared, ended, params}
  parameters,       \* #parameters: the active parameter frame
  callstack,        \* #callstack: frames {calledFrom, func, params}, top last
  currentLabels,    \* #currentLabels
  skipping,         \* #skipping
  waits,            \* #waits
  listening,        \* #listeningForKeyPress
  listenerTarget,   \* #listenerTarget
  listenerType,     \* #listenerManipulationType
  pressed,          \* #pressed: the keys held down, in insertion order
  ignored,          \* #ignored
  lastErrorLine,    \* #lastErrorLine
  extensions,       \* #extensions: the registered extensions, in order
  customKeywords,   \* #customKeywords: name -> {source, descriptors}
  globalVariables,  \* #globalVariables: name -> {value, type}
  literals,         \* #literals: the types of the extensions, name -> validator
  iterator,         \* the iterator state: {active, functionName, sourceGroup, index}
  last              \* what the last operation did (observation only)

vars == << isl, loaded, counter, stopped, live, executor, ipt, localVariables,
           functions, parameters, callstack, currentLabels, skipping, waits,
           listening, listenerTarget, listenerType, pressed, ignored,
           lastErrorLine, extensions, customKeywords, globalVariables, literals,
           iterator, last >>

\* No keyword callback invoked.
NoDisp == [kw |-> "", inputs |-> << >>, source |-> "", count |-> 0]

\* The interpreter's fields as one record; err is the error being thrown,
\* oob is set when a value leaves the model's bounds, disp is the keyword
\* callback invoked last.
Cur ==
  [counter |-> counter, stopped |-> stopped, live |-> live, executor |-> executor,
   ipt |-> ipt, localVariables |-> localVariables, functions |-> functions,
   parameters |-> parameters, callstack |-> callstack,
   currentLabels |-> currentLabels, skipping |-> skipping, waits |-> waits,
   listening |-> listening, listenerTarget |-> listenerTarget,
   listenerType |-> listenerType, pressed |-> pressed, ignored |-> ignored,
   lastErrorLine |-> lastErrorLine, extensions |-> extensions,
   customKeywords |-> customKeywords, globalVariables |-> globalVariables,
   literals |-> literals, iterator |-> iterator, err |-> "none", oob |-> FALSE,
   disp |-> NoDisp]

\* The fields of record r become the next state.
Commit(r) ==
  /\ counter' = r.counter
  /\ stopped' = r.stopped
  /\ live' = r.live
  /\ executor' = r.executor
  /\ ipt' = r.ipt
  /\ localVariables' = r.localVariables
  /\ functions' = r.functions
  /\ parameters' = r.parameters
  /\ callstack' = r.callstack
  /\ currentLabels' = r.currentLabels
  /\ skipping' = r.skipping
  /\ waits' = r.waits
  /\ listening' = r.listening
  /\ listenerTarget' = r.listenerTarget
  /\ listenerType' = r.listenerType
  /\ pressed' = r.pressed
  /\ ignored' = r.ignored
  /\ lastErrorLine' = r.lastErrorLine
  /\ extensions' = r.extensions
  /\ customKeywords' = r.customKeywords
  /\ globalVariables' = r.globalVariables
  /\ literals' = r.literals
  /\ iterator' = r.iterator

\* get #isWaiting: [st, waiting]; a pending countdown is consumed.
IsWaiting(st) ==
  IF st.listening THEN [st |-> st, waiting |-> TRUE]
  ELSE IF st.waits > 0 THEN [st |-> [st EXCEPT !.waits = @ - 1], waiting |-> TRUE]
       ELSE [st |-> st, waiting |-> FALSE]

\* A variant of the end of #executeISL that never ends the run.
AfterLineOn(st1, lines) ==
  IF st1.err # "none" THEN st1
  ELSE [st1 EXCEPT !.counter = @ + 1]

\* The end of #executeISL once the line has run and left st1: the cursor
\* moves on and a cursor past the last line ends the run.
AfterLine(st1, lines) ==
  IF st1.err # "none" THEN st1
  ELSE IF st1.counter + 1 + 1 > Len(lines)
       THEN FullReset([st1 EXCEPT !.counter = @ + 1])
       ELSE [st1 EXCEPT !.counter = @ + 1]

\* #executeISL: [st, executed], executed when a line was handed to
\* #executeLineInternal; st.err is the error thrown, if any.
ExecuteISL(st, lines) ==
  IF IsWaiting(st).waiting \/ st.stopped
  THEN [st |-> IsWaiting(st).st, executed |-> FALSE]
  ELSE IF st.counter >= 0 /\ st.counter < Len(lines)
       THEN [st |-> AfterLine(ExecuteLineInternal([st EXCEPT !.disp = NoDisp],
                                                  lines[st.counter + 1]),
                              lines),
             executed |-> TRUE]
       ELSE [st |-> Reset(st), executed |-> FALSE]

\* A variant of #handleError that hard-resets the interpreter.
HandleErrorDestructive(st) ==
  [StopExecutionDestructive([st EXCEPT !.lastErrorLine = st.counter + 1])
     EXCEPT !.err = "none"]

\* #handleError: the engine is stopped and soft-reset; the report names
\* #lastErrorLine.
HandleError(st) ==
  [StopExecutionOp([st EXCEPT !.lastErrorLine = st.counter + 1]) EXCEPT !.err = "none"]

\* What an operation did: op names it, ran counts the lines it executed,
\* line is the 0-based index of the last of them (stmt its text, pre the
\* interpreter before it, disp the keyword callback it invoked last), err
\* the kind of the error reported, "none" without one.
Obs(op, ran, line, stmt, pre, disp, err) ==
  [op |-> op, ran |-> ran, line |-> line, stmt |-> stmt, pre |-> pre,
   disp |-> disp, err |-> err]

\* The instruction loop of the tick callback from slot i on: [st, obs].
RECURSIVE TickLoop(_, _, _, _)

\* The rest of the loop once slot i has made call r of #executeISL from st.
TickSlot(st, lines, i, obs, r) ==
  IF r.st.err # "none"
  THEN [st |-> HandleError(r.st),
        obs |-> Obs("tick", obs.ran + 1, st.counter, lines[st.counter + 1],
                    st, r.st.disp, r.st.err)]
  ELSE TickLoop(r.st, lines, i + 1,
                IF r.executed
                THEN Obs("tick", obs.ran + 1, st.counter, lines[st.counter + 1],
                         st, r.st.disp, r.st.err)
                ELSE obs)

\* A variant of the instruction loop with one slot more than #instructionsAtOnce.
TickLoopLong(st, lines, i, obs) ==
  IF i > st.ipt THEN [st |-> st, obs |-> obs]
  ELSE IF st.stopped THEN TickLoop(st, lines, i + 1, obs)
       ELSE TickSlot(st, lines, i, obs, ExecuteISL(st, lines))

TickLoop(st, lines, i, obs) ==
  IF i >= st.ipt THEN [st |-> st, obs |-> obs]
  ELSE IF st.stopped THEN TickLoop(st, lines, i + 1, obs)
       ELSE TickSlot(st, lines, i, obs, ExecuteISL(st, lines))

\* The observation of an operation that executed no line.
Idle(op, err) == Obs(op, 0, 0 - 1, Empty, NoDisp, NoDisp, err)

\* The callback startExecution hands to setInterval (tick mode).
TickOp(st, lines) == TickLoop(st, lines, 0, Idle("tick", "none"))

\* The {type, value} a key string shows to #isl_set and #isl_add: a
\* JavaScript string has neither property.
KeyObj == Comp(NoType, Undef)

\* #handleKey
HandleKey(st) ==
  IF ~st.listening THEN st
  ELSE LET st1 == CASE st.listenerType = "set" -> IslSet(st, st.listenerTarget, KeyObj)
                    [] st.listenerType = "add" -> IslAdd(st, st.listenerTarget, KeyObj)
                    [] OTHER -> st
       IN IF st1.err # "none" THEN st1 ELSE [st1 EXCEPT !.listening = FALSE]

\* #keyDown
KeyDownOp(st, key) ==
  IF \E i \in 1..Len(st.pressed) : st.pressed[i] = key THEN st
  ELSE [st EXCEPT !.pressed = Append(@, key)]

\* The keydown listener once #handleKey has left r: #keyDown follows unless
\* #handleKey threw.
Listener(r, key) ==
  [st |-> IF r.err # "none" THEN r ELSE KeyDownOp(r, key),
   obs |-> Idle("key", r.err)]

\* #keyUp
KeyUpOp(st, key) ==
  [st EXCEPT !.pressed = SelectSeq(@, LAMBDA k : k # key)]

\* --------------------------------------------------------------- programs
\* A statement from its components.
S1(a) == Stmt(<< a >>)
S2(a, b) == Stmt(<< a, b >>)
S3(a, b, c) == Stmt(<< a, b, c >>)
S4(a, b, c, d) == Stmt(<< a, b, c, d >>)

\* Three functions calling one another, each with its own parameter.
NestProgram ==
  << S3(Kw("function"), Id("h"), Id("c:boolean")),
     S2(Kw("end"), Id("h")),
     S3(Kw("function"), Id("g"), Id("b:string")),
     S3(Kw("execute"), Id("h"), BoolC(TRUE)),
     S2(Kw("end"), Id("g")),
     S3(Kw("function"), Id("f"), Id("a:number")),
     S3(Kw("execute"), Id("g"), StrC("s")),
     S2(Kw("end"), Id("f")),
     S3(Kw("execute"), Id("f"), NumC(1)),
     S2(Kw("log"), StrC("done")) >>

\* A function calling itself with a different argument at each depth.
RecursionProgram ==
  << S2(Kw("number"), Id("x")),
     S3(Kw("set"), Id("x"), NumC(0 - 2)),
     S3(Kw("function"), Id("r"), Id("a:number")),
     S3(Kw("add"), Id("x"), NumC(1)),
     Stmt(<< Kw("if"), Get("x"), Cmp("<"), NumC(1), Kw("execute"), Id("r"), Get("x") >>),
     S2(Kw("end"), Id("r")),
     S3(Kw("execute"), Id("r"), NumC(0)),
     S2(Kw("log"), StrC("done")) >>

\* The execute statements tried against f(a:number) and g().
CallLines ==
  { S3(Kw("execute"), Id("f"), NumC(1)),
    S2(Kw("execute"), Id("f")),
    S3(Kw("execute"), Id("f"), StrC("s")),
    S4(Kw("execute"), Id("f"), NumC(1), NumC(2)),
    S4(Kw("execute"), Id("f"), StrC("s"), NumC(2)),
    S3(Kw("execute"), Id("g"), NumC(1)),
    S2(Kw("execute"), Id("q")) }

\* A call of g, then one of the execute statements.
CallProgram(c) ==
  << S3(Kw("function"), Id("f"), Id("a:number")),
     S2(Kw("end"), Id("f")),
     S2(Kw("function"), Id("g")),
     S2(Kw("end"), Id("g")),
     S2(Kw("execute"), Id("g")),
     c,
     S2(Kw("log"), StrC("after")) >>

\* The jump statements tried.
JumpLines ==
  { S2(Kw("jump"), Rel(2)), S2(Kw("jump"), Rel(3)), S2(Kw("jump"), Rel(1)),
    S2(Kw("jump"), Rel(0 - 1)), S2(Kw("jump"), NumC(1)), S2(Kw("jump"), NumC(3)),
    S2(Kw("jump"), NumC(2)), S2(Kw("jump"), NumC(0)),
    Stmt(<< Kw("if"), NumC(1), Cmp("="), NumC(1), Kw("jump"), NumC(3) >>) }

\* A jump at line 2, and the same jump at line 4.
JumpProgram(j, early) ==
  IF early
  THEN << S2(Kw("number"), Id("x")), j, S3(Kw("add"), Id("x"), NumC(1)),
          S3(Kw("add"), Id("x"), NumC(1)), S2(Kw("log"), StrC("e")) >>
  ELSE << S2(Kw("number"), Id("x")), S3(Kw("add"), Id("x"), NumC(1)),
          S3(Kw("add"), Id("x"), NumC(1)), j, S2(Kw("log"), StrC("e")) >>

\* The lines tried as the body of a function declaration.
BodyLines ==
  { S2(Kw("log"), StrC("a")),
    S2(Id("separated"), Kw("log")),
    S2(Id("non-destructive"), Kw("restart")),
    S4(Id("grouped"), Kw("getkeys"), Id("s"), Kw("set")),
    S1(Id("grouped")),
    S1(Id("nokeyword")),
    S3(Kw("set"), Id("s"), NumC(1)),
    S3(Kw("set"), Id("s"), Get("novar")),
    S2(Kw("end"), Id("g")),
    S2(Kw("end"), Id("q")),
    S1(Kw("end")),
    S2(Kw("execute"), Id("g")),
    S2(Kw("jump"), NumC(1)),
    S1(Kw("stop")),
    S2(Kw("pause"), NumC(1)),
    Meta("ignore", "log"),
    Empty }

\* A declaration of f with one body line, after a completed declaration of
\* g; f is called afterwards.
DeclProgram(b) ==
  << S2(Kw("function"), Id("g")),
     S2(Kw("end"), Id("g")),
     S2(Kw("string"), Id("s")),
     S3(Kw("function"), Id("f"), Id("a:number")),
     b,
     S2(Kw("end"), Id("f")),
     S2(Kw("log"), StrC("after")),
     S3(Kw("execute"), Id("f"), NumC(1)) >>

\* Waiting for a key and for a countdown.
WaitProgram ==
  << S2(Kw("string"), Id("s")),
     S2(Kw("var"), Id("v")),
     S3(Kw("awaitkey"), Id("v"), Kw("set")),
     S2(Kw("pause"), NumC(2)),
     S3(Kw("getkeys"), Id("s"), Kw("set")),
     S3(Kw("awaitkey"), Id("s"), Kw("add")),
     S2(Kw("log"), StrC("done")) >>

\* The restart statements tried.
RestartLines ==
  { S1(Kw("restart")), S2(Id("non-destructive"), Kw("restart")) }

\* A variable and a function, then a restart.
RestartProgram(r) ==
  << S2(Kw("number"), Id("x")),
     S2(Kw("function"), Id("f")),
     S2(Kw("end"), Id("f")),
     S3(Kw("add"), Id("x"), NumC(1)),
     r,
     S2(Kw("log"), StrC("after")) >>

\* A restart on the first line; the last line fails under a label of restart.
RelabelProgram ==
  << S1(Kw("restart")),
     S2(Kw("number"), Id("x")),
     S3(Id("non-destructive"), Kw("log"), StrC("a")) >>

\* A stop statement executed inside a call of f.
StopProgram ==
  << S2(Kw("number"), Id("x")),
     S2(Kw("function"), Id("f")),
     S1(Kw("stop")),
     S2(Kw("end"), Id("f")),
     S2(Kw("execute"), Id("f")),
     S2(Kw("log"), StrC("after")) >>

\* Waiting for a key that is to be stored in a string variable.
KeyProgram ==
  << S2(Kw("string"), Id("s")),
     S3(Kw("awaitkey"), Id("s"), Kw("set")),
     S2(Kw("log"), StrC("after")),
     S2(Kw("log"), StrC("done")) >>

\* The programs the host loads.
\* A program that ends inside a function declaration it never closes.
OpenProgram ==
  << S2(Kw("function"), Id("f")),
     S2(Kw("log"), StrC("a")) >>

Programs ==
  {NestProgram, RecursionProgram, WaitProgram, StopProgram, KeyProgram,
   RelabelProgram, OpenProgram}
    \cup {RestartProgram(r) : r \in RestartLines}
    \cup {CallProgram(c) : c \in CallLines}
    \cup {JumpProgram(j, e) : j \in JumpLines, e \in BOOLEAN}
    \cup {DeclProgram(b) : b \in BodyLines}

\* The keys of the keyboard.
Keys == {"k"}

\* ---------------------------------------------------------------- actions
\* #globalVariables as the field initialiser leaves it: the mouse buttons.
MouseVariables ==
  [ n \in {"mleft", "mright", "mwheel", "m4", "m5", "many"} |->
      Comp("boolean", Bool(FALSE)) ]

\* The state after construction.
Init ==
  /\ isl = << >>
  /\ loaded = FALSE
  /\ counter = 0
  /\ stopped = FALSE
  /\ live = 0
  /\ executor = FALSE
  /\ ipt = 1
  /\ localVariables = EmptyMap
  /\ functions = EmptyMap
  /\ parameters = EmptyFrame
  /\ callstack = << >>
  /\ currentLabels = << >>
  /\ skipping = FALSE
  /\ waits = 0
  /\ listening = FALSE
  /\ listenerTarget = ""
  /\ listenerType = ""
  /\ pressed = << >>
  /\ ignored = {}
  /\ lastErrorLine = 0
  /\ extensions = << >>
  /\ customKeywords = EmptyMap
  /\ globalVariables = MouseVariables
  /\ literals = EmptyMap
  /\ iterator = NoIterator
  /\ last = Idle("host", "none")

\* loadISL(array, source), on an interpreter that holds no program.
LoadISL(p) ==
  /\ ~loaded
  /\ isl' = p
  /\ loaded' = TRUE
  /\ Commit([Cur EXCEPT !.counter = 0])
  /\ last' = Idle("host", "none")

\* startExecution(speed, n); run() is startExecution with the current n.
StartExecution(n) ==
  /\ loaded
  /\ ~StartExecutionOp(Cur, n).oob
  /\ Commit(StartExecutionOp(Cur, n))
  /\ last' = Idle("host", "none")
  /\ UNCHANGED << isl, loaded >>

\* pauseExecution()
PauseExecution ==
  /\ Commit(PauseExecutionOp(Cur))
  /\ last' = Idle("host", "none")
  /\ UNCHANGED << isl, loaded >>

\* stopExecution()
StopExecution ==
  /\ Commit(StopExecutionOp(Cur))
  /\ last' = Idle("host", "none")
  /\ UNCHANGED << isl, loaded >>

\* The outcome r = [st, obs] of an operation becomes the next state, when
\* every value of it is within the bounds.
Done(r) ==
  /\ ~r.st.oob
  /\ Commit(r.st)
  /\ last' = r.obs

\* One firing of an interval timer.
Tick ==
  /\ live > 0
  /\ Done(TickOp(Cur, isl))
  /\ UNCHANGED << isl, loaded >>

\* The keydown listener: #handleKey, then #keyDown unless #handleKey threw.
KeyDown(key) ==
  /\ Done(Listener(HandleKey(Cur), key))
  /\ UNCHANGED << isl, loaded >>

\* The keyup listener.
KeyUp(key) ==
  /\ \E i \in 1..Len(pressed) : pressed[i] = key
  /\ Commit(KeyUpOp(Cur, key))
  /\ last' = Idle("host", "none")
  /\ UNCHANGED << isl, loaded >>

Next ==
  \/ \E p \in Programs : LoadISL(p)
  \/ \E n \in 1..MaxIpt : StartExecution(n)
  \/ PauseExecution
  \/ StopExecution
  \/ Tick
  \/ \E key \in Keys : KeyDown(key)
  \/ \E key \in Keys : KeyUp(key)

Spec == Init /\ [][Next]_vars

\* ------------------------------------------------------ run to completion
\* The for loop of #executeAllISL from the cursor of st on: [st, ran], ran
\* the 0-based indices of the lines executed, in order; st.err is the error
\* thrown, if any.
RECURSIVE ExecuteAllLoop(_, _, _, _)
ExecuteAllLoop(st, lines, ran, fuel) ==
  IF st.counter >= Len(lines) THEN [st |-> st, ran |-> ran]
  ELSE IF fuel = 0 THEN [st |-> [st EXCEPT !.oob = TRUE], ran |-> ran]
  ELSE IF IsWaiting(st).waiting \/ st.stopped
       THEN ExecuteAllLoop([IsWaiting(st).st EXCEPT !.counter = @ + 1],
                           lines, ran, fuel - 1)
       ELSE IF st.counter < 0 \/ lines[st.counter + 1].kind = "empty"
            THEN [st |-> Throw(Reset(st), "Syntax"), ran |-> ran]
            ELSE LET st1 == ExecuteLineInternal([st EXCEPT !.disp = NoDisp],
                                                lines[st.counter + 1])
                 IN IF st1.err # "none"
                    THEN [st |-> st1, ran |-> Append(ran, st.counter)]
                    ELSE ExecuteAllLoop([st1 EXCEPT !.counter = @ + 1], lines,
                                        Append(ran, st.counter), fuel - 1)

\* #executeAllISL: a soft reset, then the loop from the first line.
ExecuteAllISL(st, lines) == ExecuteAllLoop(Reset(st), lines, << >>, MaxRun)

\* What the timer callback leaves once #executeAllISL has left r: an error
\* is handled as in tick mode; lines are the lines the firing executed.
Fired(st, r) ==
  [st |-> IF r.st.err # "none" THEN HandleError(r.st) ELSE r.st,
   obs |-> [op |-> "all", ran |-> Len(r.ran), line |-> r.st.counter,
            stmt |-> Empty, pre |-> st, disp |-> r.st.disp, err |-> r.st.err,
            lines |-> r.ran]]

\* One firing of the interval timer of an interpreter constructed with
\* options.instant: the callback runs #executeAllISL.
TickInstant ==
  /\ live > 0
  /\ Done(Fired(Cur, ExecuteAllISL(Cur, isl)))
  /\ UNCHANGED << isl, loaded >>

NextInstant ==
  \/ \E p \in Programs : LoadISL(p)
  \/ \E n \in 1..MaxIpt : StartExecution(n)
  \/ StopExecution
  \/ TickInstant

\* The host drives an interpreter constructed in run-to-completion mode.
SpecInstant == Init /\ [][NextInstant]_vars

\* ------------------------------------------------------ straight programs
\* The second line of a three-line program.
StraightLines ==
  { S3(Kw("add"), Id("x"), NumC(1)),
    S3(Kw("add"), Id("q"), NumC(1)),
    S2(Kw("function"), Id("f")),
    S2(Kw("log"), StrC("a")),
    S1(Kw("stop")),
    Empty }

StraightProgram(l) ==
  << S2(Kw("number"), Id("x")), l, S2(Kw("log"), StrC("e")) >>

StraightPrograms == {StraightProgram(l) : l \in StraightLines} \cup {OpenProgram}

NextStraight ==
  \/ \E p \in StraightPrograms : LoadISL(p)
  \/ \E n \in 1..MaxIpt : StartExecution(n)
  \/ Tick

\* The host loads a program and starts it, and leaves it running: an
\* interval timer that is alive keeps firing.
SpecStraight == Init /\ [][NextStraight]_vars /\ WF_vars(Tick)

\* ------------------------------------------------- line-by-line execution
\* The statements the host hands to executeLine one at a time: declarations,
\* assignments and arithmetic over x, v and the undeclared q.
Lines ==
  { S2(Kw("number"), Id("x")), S2(Kw("var"), Id("v")),
    S3(Kw("set"), Id("x"), NumC(2)), S3(Kw("set"), Id("x"), StrC("a")),
    S3(Kw("set"), Id("v"), NumC(1)), S3(Kw("set"), Id("v"), StrC("a")),
    S3(Kw("set"), Id("q"), NumC(1)),
    S3(Kw("add"), Id("x"), NumC(1)), S3(Kw("add"), Id("x"), StrC("a")),
    S3(Kw("subtract"), Id("x"), NumC(1)), S3(Kw("multiply"), Id("x"), NumC(2)),
    S3(Kw("divide"), Id("x"), NumC(2)), S3(Kw("divide"), Id("x"), NumC(0)),
    S2(Kw("round"), Id("x")), S2(Kw("negate"), Id("x")),
    S3(Kw("getkeys"), Id("v"), Kw("set")),
    S3(Kw("awaitkey"), Id("x"), Kw("add")), S1(Kw("stop")) }

\* The try/catch of executeLine once #executeLineInternal has taken st to
\* st1.
Caught(st, st1, l) ==
  [st |-> IF st1.err # "none" THEN HandleError(st1) ELSE st1,
   obs |-> Obs("line", 1, st.counter, l, NoDisp, st1.disp, st1.err)]

\* executeLine(line): the line is executed at once, outside any tick; an
\* error is handed to #handleError.  The step runs exactly one line, so the
\* interpreter before the line is the state the step starts in and the
\* observation keeps no copy of it.
ExecuteLine(l) ==
  /\ Done(Caught(Cur, ExecuteLineInternal(Cur, l), l))
  /\ UNCHANGED << isl, loaded >>

NextLine ==
  \/ \E l \in Lines : ExecuteLine(l)
  \/ StopExecution
  \/ \E key \in Keys : KeyDown(key)
  \/ \E key \in Keys : KeyUp(key)

\* The host drives the interpreter with executeLine only.
SpecLine == Init /\ [][NextLine]_vars

\* ------------------------------------------------------ lines of source
\* The lines of source text the host hands to executeLine, each the sequence
\* of its characters.
NumberX ==
  << "n", "u", "m", "b", "e", "r", " ", "x" >>
NumberA ==
  << "n", "u", "m", "b", "e", "r", " ", "a" >>
FunctionF ==
  << "f", "u", "n", "c", "t", "i", "o", "n", " ", "f", " ", "a", ":", "n", "u", "m", "b", "e", "r" >>
EndF ==
  << "e", "n", "d", " ", "f" >>
ExecuteF ==
  << "e", "x", "e", "c", "u", "t", "e", " ", "f", " ", "2" >>
LogOpenString ==
  << "l", "o", "g", " ", "\"", "a", " ", "b" >>
LogOpenGroup ==
  << "l", "o", "g", " ", "[", "a", " ", "b" >>
LogMissingThenOpen ==
  << "l", "o", "g", " ", "\\", "q", "\\", " ", "\"", "a" >>
LogCommentInString ==
  << "l", "o", "g", " ", "\"", "a", "/", "/", "b", "\"" >>
LogThenComment ==
  << "l", "o", "g", " ", "\"", "a", "\"", " ", "/", "/", "b" >>
RectangleLine ==
  << "r", "e", "c", "t", "a", "n", "g", "l", "e", " ", "1", "0", " ", "1", "0", " ", "\"", "a", " ", "b", "\"", " ", "[", "1", "|", "2", "|", "3", "]" >>
LogLine ==
  << "l", "o", "g", " ", "1", "0", " ", "1", "0", " ", "\"", "a", " ", "b", "\"", " ", "[", "1", "|", "2", "|", "3", "]" >>
LogA ==
  << "l", "o", "g", " ", "\\", "a", "\\" >>
LogLocalA ==
  << "l", "o", "g", " ", "-", "\\", "a", "\\" >>
LogParamA ==
  << "l", "o", "g", " ", ":", "\\", "a", "\\" >>
LogX ==
  << "l", "o", "g", " ", "\\", "x", "\\" >>
LogQ ==
  << "l", "o", "g", " ", "\\", "q", "\\" >>
LogGlobal ==
  << "l", "o", "g", " ", "\\", "_", "m", "l", "e", "f", "t", "\\" >>
FilledLog ==
  << "f", "i", "l", "l", "e", "d", " ", "l", "o", "g", " ", "a" >>
FilledRectangle ==
  << "f", "i", "l", "l", "e", "d", " ", "r", "e", "c", "t", "a", "n", "g", "l", "e", " ", "1" >>
RectangleOne ==
  << "r", "e", "c", "t", "a", "n", "g", "l", "e", " ", "1" >>
LogRed ==
  << "l", "o", "g", " ", "r", "e", "d" >>
RequireShapes ==
  << "[", "r", "e", "q", "u", "i", "r", "e", " ", "s", "h", "a", "p", "e", "s", "]" >>
LogGroup ==
  << "l", "o", "g", " ", "[", "a", " ", "b", "|", "c", "]" >>
GroupedLog ==
  << "g", "r", "o", "u", "p", "e", "d", " ", "l", "o", "g", " ", "a" >>
CircleBare ==
  << "c", "i", "r", "c", "l", "e" >>
CircleOne ==
  << "c", "i", "r", "c", "l", "e", " ", "1" >>
CircleTwo ==
  << "c", "i", "r", "c", "l", "e", " ", "1", " ", "2" >>
DotBare ==
  << "d", "o", "t" >>
IgnoreLog ==
  << "[", "i", "g", "n", "o", "r", "e", " ", "l", "o", "g", "]" >>
IfTrue ==
  << "i", "f", " ", "3", " ", "<", " ", "5", " ", "s", "e", "t", " ", "x", " ", "1" >>
IfFalse ==
  << "i", "f", " ", "5", " ", "<", " ", "3", " ", "s", "e", "t", " ", "x", " ", "1" >>
ElseSet ==
  << "e", "l", "s", "e", " ", "s", "e", "t", " ", "x", " ", "2" >>

\* The characters of the generated lines, and their greatest length after
\* the keyword.
Alphabet == {"\"", "["}
MaxText == 2

\* Every sequence of at most n characters of Alphabet.
RECURSIVE Strings(_)
Strings(n) ==
  IF n = 0 THEN { << >> }
  ELSE Strings(n - 1) \cup
       { Append(s, c) : s \in { s \in Strings(n - 1) : Len(s) = n - 1 }, c \in Alphabet }

\* `log ` followed by every sequence of Alphabet up to MaxText.
Generated == { << "l", "o", "g", " " >> \o s : s \in Strings(MaxText) }

\* The lines that exercise the tokeniser, the getters and the conditional.
NumberWidth ==
  << "n", "u", "m", "b", "e", "r", " ", "w", "i", "d", "t", "h" >>
SetWidth ==
  << "s", "e", "t", " ", "w", "i", "d", "t", "h", " ", "2" >>
AddWidth ==
  << "a", "d", "d", " ", "w", "i", "d", "t", "h", " ", "1" >>
DeleteWidth ==
  << "d", "e", "l", "e", "t", "e", " ", "w", "i", "d", "t", "h" >>
LogGlobalWidth ==
  << "l", "o", "g", " ", "\\", "_", "w", "i", "d", "t", "h", "\\" >>
LogLocalWidth ==
  << "l", "o", "g", " ", "\\", "w", "i", "d", "t", "h", "\\" >>

\* Statements on a local variable that has the name of a global one.
GlobalTexts ==
  { NumberWidth, SetWidth, AddWidth, DeleteWidth, LogGlobalWidth, LogLocalWidth }

Texts ==
  { NumberX, NumberA, FunctionF, EndF, ExecuteF, LogOpenString, LogOpenGroup,
    LogMissingThenOpen, LogCommentInString, LogThenComment,
    LogLine, LogA, LogLocalA, LogParamA, LogX, LogQ, LogGlobal, IfTrue,
    IfFalse, ElseSet } \cup Generated

\* The lines that exercise the keywords, labels and types of extensions and
\* the meta tags.
ExtTexts ==
  { RectangleLine, RectangleOne, LogLine, LogGroup, LogRed, FilledLog, GroupedLog,
    FilledRectangle, CircleBare, CircleOne, CircleTwo, DotBare,
    RequireShapes, IgnoreLog }

\* The extensions the host registers: two that define the keyword rectangle,
\* the later of them the keyword log too and two keywords with optional
\* inputs, and one without identifier.
Shapes ==
  [id |-> "shapes",
   keywords |-> [ w \in {"rectangle"} |-> << Recurring({"any"}) >> ],
   variables |-> [ v \in {"width"} |-> NumC(1) ],
   types |-> [ ty \in {"colour"} |-> {"red"} ],
   labels |-> << [label |-> "filled", for |-> {"rectangle"}] >>]
Draw ==
  [id |-> "draw",
   keywords |->
     [ w \in {"rectangle", "log", "circle", "dot"} |->
         CASE w = "circle" -> << Desc({"number"}), Optional({"number"}) >>
           [] w = "dot" -> << Optional({"any"}) >>
           [] OTHER -> << Recurring({"any"}) >> ],
   variables |-> EmptyMap,
   types |-> EmptyMap,
   labels |-> << >>]
Anonymous ==
  [id |-> "",
   keywords |-> [ w \in {"circle"} |-> << Recurring({"any"}) >> ],
   variables |-> [ v \in {"height"} |-> NumC(1) ],
   types |-> [ ty \in {"unit"} |-> {"px"} ],
   labels |-> << [label |-> "thin", for |-> {"circle"}] >>]
Extensions == {Shapes, Draw, Anonymous}

\* The most extensions the host registers.
MaxExt == 2

\* The most labels a failed statement leaves on #currentLabels.
MaxLabels == 2

\* executeLine(line) on a line of source text.
ExecuteText(t) ==
  /\ Done(Caught(Cur, ExecuteSource(Cur, t), t))
  /\ Len(currentLabels') <= MaxLabels
  /\ UNCHANGED << isl, loaded >>

\* extend(extension): the error of a rejected extension reaches the host.
Extend(e) ==
  /\ e.id # "" => Len(extensions) < MaxExt
  /\ Commit([ExtendOp(Cur, e) EXCEPT !.err = "none"])
  /\ last' = Idle("extend", ExtendOp(Cur, e).err)
  /\ UNCHANGED << isl, loaded >>

\* loadISL(array, source), whatever the interpreter holds.
Reload(p) ==
  /\ isl' = p
  /\ loaded' = TRUE
  /\ Commit([Cur EXCEPT !.counter = 0])
  /\ last' = Idle("load", "none")

NextText ==
  \E t \in Texts : ExecuteText(t)

\* The host executes lines of source text with executeLine.
SpecText == Init /\ [][NextText]_vars

NextGlobal ==
  \/ \E t \in GlobalTexts : ExecuteText(t)
  \/ \E e \in Extensions : Extend(e)

\* The host registers extensions and executes statements on variables.
SpecGlobal == Init /\ [][NextGlobal]_vars

NextExt ==
  \/ \E t \in ExtTexts : ExecuteText(t)
  \/ \E e \in Extensions : Extend(e)
  \/ \E p \in {StopProgram} : Reload(p)

\* The host registers extensions, loads programs and executes lines of
\* source text with executeLine.
SpecExt == Init /\ [][NextExt]_vars

\* -------------------------------------------------------------- iterating
\* The groups and functions of the iterate statements the host executes.
IterGroups ==
  { << >>, << NumC(1) >>, << NumC(1), NumC(2) >>, << StrC("a") >> }
IterFunctions == {"f", "g"}
FunctionG ==
  << "f", "u", "n", "c", "t", "i", "o", "n", " ", "g" >>
EndG ==
  << "e", "n", "d", " ", "g" >>

\* The lines executed around the iterations.
IterTexts == { FunctionF, FunctionG, LogA }

\* The observation of a line of the form `iterate <group> with <fn>`.
Iterated(r, group, func) ==
  [r EXCEPT !.obs.op = "iterate",
            !.obs.stmt = [kind |-> "iterate", group |-> group, func |-> func]]

\* executeLine(`iterate <group> with <fn>`)
Iterate(group, func) ==
  /\ Done(Iterated(Caught(Cur, IterateStatement(Cur, group, func), << >>),
                   group, func))
  /\ UNCHANGED << isl, loaded >>

\* executeLine(`end <fn>`): the statement, then the return from the call.
EndText(t, func) ==
  /\ Done(Caught(Cur, ReturnFromCall(Cur, ExecuteSource(Cur, t), func), t))
  /\ UNCHANGED << isl, loaded >>

NextIter ==
  \/ \E t \in IterTexts : ExecuteText(t)
  \/ \E g \in IterGroups, f \in IterFunctions : Iterate(g, f)
  \/ EndText(EndF, "f")
  \/ EndText(EndG, "g")

\* The host executes declarations, iterate statements and the ends of the
\* iterated functions with executeLine.
SpecIter == Init /\ [][NextIter]_vars

\* ------------------------------------------------------------- properties
\* The last operation was a tick whose last line reached the callback of
\* keyword kw.
Ran(kw) == last.op = "tick" /\ last.ran > 0 /\ last.disp.kw = kw

\* The name the last keyword callback was given.
Named == Text(last.disp.inputs[1])

\* The frame on top of a call stack.
Top(stack) == stack[Len(stack)]

\* A call stack without its top frame.
Below(stack) == SubSeq(stack, 1, Len(stack) - 1)

\* The last line was an `end` that returned from a call: the function's
\* declaration was complete and a frame was popped.
Returned ==
  /\ Ran("end")
  /\ Named \in DOMAIN last.pre.functions
  /\ last.pre.functions[Named].ended
  /\ Len(last.pre.callstack) > 0

\* C1: after an `end` has returned from a call, the active parameter frame
\* is the frame of the call now on top of the call stack, and holds no
\* parameter when the call stack is empty.
C1_FrameOfCaller ==
  (Returned /\ last.err = "none") =>
    IF Len(callstack) = 0 THEN parameters.map = EmptyMap
    ELSE parameters =
           ToParameterObjects(Cur, Top(callstack).func, Top(callstack).params).frame

\* C2: a successful `execute f` of a function whose declaration is complete
\* continues at the first body line of f, and the `end f` that matches the
\* call continues at the line after the call, when the program has one,
\* with the call stack as it was before the call.
C2_CallAndReturn ==
  /\ (Ran("execute") /\ last.err = "none" /\ last.pre.functions[Named].ended) =>
       counter = last.pre.functions[Named].indexStart + 1
  /\ (/\ Returned
      /\ Top(last.pre.callstack).func = Named
      /\ Top(last.pre.callstack).calledFrom + 1 < Len(isl)) =>
       /\ last.err = "none"
       /\ counter = Top(last.pre.callstack).calledFrom + 1
       /\ callstack = Below(last.pre.callstack)

\* C3: an `execute` that fails its argument count or type check leaves the
\* call stack and the active parameter frame as they were.
C3_FailedCallLeavesNoFrame ==
  (Ran("execute") /\ last.err \in {"Syntax", "Type"}) =>
    /\ callstack = last.pre.callstack
    /\ parameters = last.pre.parameters

\* The arguments the last keyword callback was given after the name.
Args == Tail(last.disp.inputs)

\* C4: `execute f a1 .. an` raises a Reference error when f does not exist,
\* a Syntax error when f has k parameters and n # k, and a Type error when
\* n = k and some argument's tag differs from its parameter's tag.
C4_ExecuteErrors ==
  Ran("execute") =>
    IF Named \notin DOMAIN last.pre.functions THEN last.err = "Reference"
    ELSE LET expected == last.pre.functions[Named].params IN
         /\ Len(Args) # Len(expected) => last.err = "Syntax"
         /\ (/\ Len(Args) = Len(expected)
             /\ \E i \in 1..Len(Args) : Args[i].type # expected[i].type) =>
              last.err = "Type"

\* An `execute` with the right number of arguments, one of a wrong tag,
\* raised a Type error.
C4_Witness ==
  /\ Ran("execute")
  /\ Named \in DOMAIN last.pre.functions
  /\ Len(Args) = Len(last.pre.functions[Named].params)
  /\ \E i \in 1..Len(Args) : Args[i].type # last.pre.functions[Named].params[i].type
  /\ last.err = "Type"

\* The initial value and tag a declaration keyword gives a variable.
Declared(kw) ==
  CASE kw = "number" -> [value |-> Num(0), type |-> "number", declared |-> TRUE]
    [] kw = "string" -> [value |-> Str(""), type |-> "string", declared |-> TRUE]
    [] OTHER -> [value |-> Null, type |-> NoType, declared |-> TRUE]

\* C7: declaring a local variable that was already declared in the current
\* pass raises a Reference error and leaves its value and tag as they were;
\* a variable that is absent, or was declared before the last soft or hard
\* reset only, is declared anew.
C7_Redeclare ==
  (\E kw \in {"var", "number", "string"} : Ran(kw)) =>
    IF /\ Named \in DOMAIN last.pre.localVariables
       /\ last.pre.localVariables[Named].declared
    THEN /\ last.err = "Reference"
         /\ Named \in DOMAIN localVariables
         /\ localVariables[Named].value = last.pre.localVariables[Named].value
         /\ localVariables[Named].type = last.pre.localVariables[Named].type
    ELSE /\ last.err = "none"
         /\ localVariables[Named] = Declared(last.disp.kw)

\* A redeclaration in the same pass raised a Reference error and the
\* variable kept a value other than its initial one.
C7_Witness ==
  /\ Ran("number")
  /\ Named \in DOMAIN last.pre.localVariables
  /\ last.pre.localVariables[Named].declared
  /\ last.err = "Reference"
  /\ localVariables[Named].value = Num(2)

\* The 1-based line a jump argument names when given at 1-based line n.
Target(n, arg) ==
  IF arg.type = "relpos"
  THEN n + (CHOOSE k \in NumRange : arg.value.s = "~" \o ToString(k))
  ELSE arg.value.n

\* C8: in tick mode the statement executed after `jump ~k` at line N is line
\* N + k, and after `jump L` it is line L, for a target inside the program.
C8_JumpTarget ==
  (Ran("jump") /\ last.err = "none"
     /\ Target(last.line + 1, last.disp.inputs[1]) \in 1..Len(isl)) =>
    counter + 1 = Target(last.line + 1, last.disp.inputs[1])

\* A relative jump of two lines was taken and the cursor is on its target.
C8_Witness ==
  /\ Ran("jump")
  /\ last.err = "none"
  /\ last.disp.inputs[1] = Rel(2)
  /\ counter + 1 = last.line + 1 + 2

\* Whether a line is an `end` statement.
IsEnd(line) ==
  line.kind = "stmt" /\ Len(line.parts) > 0 /\ Text(line.parts[1]) = "end"

\* The last operation was a tick whose last line was met while a function
\* declaration was open.
RanSkipping == last.op = "tick" /\ last.ran > 0 /\ last.pre.skipping

\* C9: while a function declaration is open, a body line other than `end`
\* raises no error and changes nothing but the cursor, which moves on by one.
C9_BodyLinesInert ==
  (RanSkipping /\ ~IsEnd(last.stmt)) =>
    /\ last.err = "none"
    /\ Cur = [last.pre EXCEPT !.counter = @ + 1, !.disp = NoDisp]

\* C10: while the declaration of f is open, an `end g` naming a function
\* whose declaration is not open leaves skipping mode on, leaves every open
\* declaration open and leaves the call stack as it is.
C10_OnlyMatchingEndCloses ==
  (/\ RanSkipping
   /\ IsEnd(last.stmt)
   /\ Len(last.stmt.parts) >= 2
   /\ \/ Text(last.stmt.parts[2]) \notin DOMAIN last.pre.functions
      \/ last.pre.functions[Text(last.stmt.parts[2])].ended) =>
    /\ skipping
    /\ callstack = last.pre.callstack
    /\ \A f \in DOMAIN last.pre.functions :
         ~last.pre.functions[f].ended => (f \in DOMAIN functions /\ ~functions[f].ended)

\* C5: `set x v` raises a Reference error when x does not exist and a Type
\* error, leaving x as it was, when x has an established tag other than
\* v's; a variable without a tag adopts v's tag and value.
C5_SetContract ==
  [][ (last'.op = "line" /\ last'.disp.kw = "set") =>
        LET x == Text(last'.disp.inputs[1])
            v == last'.disp.inputs[2]
        IN IF x \notin DOMAIN localVariables THEN last'.err = "Reference"
           ELSE IF localVariables[x].type = NoType
                THEN /\ last'.err = "none"
                     /\ localVariables'[x].type = v.type
                     /\ localVariables'[x].value = v.value
                ELSE IF localVariables[x].type # v.type
                     THEN /\ last'.err = "Type"
                          /\ x \in DOMAIN localVariables'
                          /\ localVariables'[x].type = localVariables[x].type
                          /\ localVariables'[x].value = localVariables[x].value
                     ELSE /\ last'.err = "none"
                          /\ localVariables'[x].value = v.value ]_vars

\* A `set` of a string into a number variable raised a Type error.
C5_Witness ==
  /\ last.op = "line"
  /\ last.disp.kw = "set"
  /\ last.err = "Type"
  /\ Text(last.disp.inputs[1]) \in DOMAIN localVariables
  /\ localVariables[Text(last.disp.inputs[1])].type = "number"
  /\ last.disp.inputs[2].type = "string"

\* C6: every local variable with a type tag holds a raw value of that tag.
C6_TaggedValuesKeepTag ==
  \A name \in DOMAIN localVariables :
    localVariables[name].type # NoType =>
      localVariables[name].value.k = localVariables[name].type

\* The statement the last tick executed last carries label l.
Labelled(l) ==
  \E i \in 1..Len(last.stmt.parts) : Text(last.stmt.parts[i]) = l

\* C11: after a `restart` statement, with or without `non-destructive`, the
\* cursor is at the first line: the next statement executed is line 1.
C11_RestartAtFirstLine ==
  (Ran("restart") /\ last.err = "none") => counter = 0

\* Map m with every entry marked redeclarable.
Redeclarable(m) == [n \in DOMAIN m |-> [m[n] EXCEPT !.declared = FALSE]]

\* C12: `non-destructive restart` keeps every local variable with its value
\* and only marks variables and functions redeclarable; `restart` without the
\* label removes every local variable and function.
C12_RestartKeepsOrClears ==
  (Ran("restart") /\ last.err = "none") =>
    IF Labelled("non-destructive")
    THEN /\ localVariables = Redeclarable(last.pre.localVariables)
         /\ functions = Redeclarable(last.pre.functions)
    ELSE /\ localVariables = EmptyMap
         /\ functions = EmptyMap

\* The engine is ready to execute the line at the cursor.
Ready ==
  /\ ~stopped
  /\ ~listening
  /\ waits = 0
  /\ counter >= 0
  /\ counter < Len(isl)

\* C13: pauseExecution() halts the scheduler and changes nothing else (the
\* cursor, the local variables, the functions, the call stack, the parameter
\* frame and the pending waits stay as they are); startExecution leaves the
\* cursor where it is, and the next tick of a ready engine executes the
\* statement at the cursor first.
C13_PauseKeepsState ==
  [][ /\ PauseExecution =>
           /\ stopped'
           /\ ~executor'
           /\ UNCHANGED << counter, localVariables, functions, callstack,
                           parameters, waits, listening, listenerTarget,
                           listenerType, skipping, ipt >>
      /\ (\E n \in 1..MaxIpt : StartExecution(n)) =>
           /\ ~stopped'
           /\ UNCHANGED << counter, localVariables, functions, callstack,
                           parameters, waits, listening >>
      /\ (last'.op = "tick" /\ live > 0 /\ Ready) =>
           /\ last'.ran >= 1
           /\ last'.ran = 1 => last'.line = counter ]_vars

\* The engine was paused in the middle of a program: the cursor is past the
\* first line and a declared variable is still declared.
C13_Witness ==
  /\ last.op = "host"
  /\ stopped
  /\ ~executor
  /\ counter > 0
  /\ \E v \in DOMAIN localVariables : localVariables[v].declared

\* The step is a tick whose last line reached the callback of keyword kw
\* and raised no error.
Runs(kw) ==
  /\ last'.op = "tick"
  /\ last'.ran > 0
  /\ last'.disp.kw = kw
  /\ last'.err = "none"

\* C14: stopping, by a `stop` statement or by the host's stopExecution(),
\* halts the engine and hard-resets it: no local variable, no function and no
\* call-stack frame remains.
C14_StopHardResets ==
  [][ (StopExecution \/ Runs("stop")) =>
        /\ stopped'
        /\ localVariables' = EmptyMap
        /\ functions' = EmptyMap
        /\ callstack' = << >> ]_vars

\* C15: while the engine is waiting (a pause countdown above 0, or an awaitkey
\* pending), a tick executes no statement and does not move the cursor,
\* whatever the instructions per tick.
C15_WaitingTickIsIdle ==
  [][ (last'.op = "tick" /\ (waits > 0 \/ listening)) =>
        /\ last'.ran = 0
        /\ counter' = counter ]_vars

\* C16: `pause N` is a countdown of N ticks consumed once per tick, whatever
\* the instructions per tick: the tick that executes the pause leaves N to
\* wait, every tick of a running engine with a countdown above 0 executes no
\* statement and takes exactly one off, and the tick that finds the countdown
\* at 0 executes the statement at the cursor.
C16_PauseCountsTicks ==
  [][ /\ Runs("pause") => waits' = last'.disp.inputs[1].value.n
      /\ (last'.op = "tick" /\ waits > 0 /\ ~listening /\ ~stopped) =>
           /\ last'.ran = 0
           /\ waits' = waits - 1
      /\ (last'.op = "tick" /\ live > 0 /\ Ready) => last'.ran >= 1 ]_vars

\* An `awaitkey x set` is pending for a declared string variable x.
AwaitingString ==
  /\ listening
  /\ listenerType = "set"
  /\ listenerTarget \in DOMAIN localVariables
  /\ localVariables[listenerTarget].type = "string"

\* C17: after `awaitkey x set` for a declared string variable x no statement
\* executes until a key is pressed; the key press stores the key in x and
\* ends the wait, so that a later tick resumes execution.
C17_AwaitkeySetsString ==
  [][ AwaitingString =>
        /\ last'.op = "tick" => (last'.ran = 0 /\ listening')
        /\ \A key \in Keys :
             KeyDown(key) =>
               /\ last'.err = "none"
               /\ localVariables'[listenerTarget].value = Str(key)
               /\ ~listening' ]_vars

\* C18: in tick mode one tick executes at most `instructions per tick`
\* statements, and every statement it executes finds the engine not stopped:
\* once a statement of the tick has stopped the engine, the tick executes no
\* further statement.
C18_TickBound ==
  last.op = "tick" =>
    /\ last.ran <= ipt
    /\ last.ran > 0 => ~last.pre.stopped

\* With 2 instructions per tick, a tick executed `stop` in its first slot
\* and nothing in its second.
C18_Witness ==
  /\ Ran("stop")
  /\ stopped
  /\ ipt = 2
  /\ last.ran = 1
  /\ last.pre.waits = 0
  /\ ~last.pre.listening

\* C19: an error raised while a tick executes a statement halts the engine
\* (stopped, the scheduler's timer cleared) within that tick, the report
\* names the 1-based number of the failing line, and no tick of a stopped
\* engine executes a statement.
C19_ErrorHaltsTick ==
  [][ /\ (last'.op = "tick" /\ last'.err # "none") =>
           /\ stopped'
           /\ ~executor'
           /\ lastErrorLine' = last'.line + 1
      /\ (last'.op = "tick" /\ stopped) => last'.ran = 0 ]_vars

\* C20: after a fatal error the interpreter is idle but not destroyed: the
\* engine is stopped with the cursor at the first line, and every local
\* variable and function that existed before the failing statement still
\* exists, the variable with its value, marked redeclarable.
C20_ErrorKeepsState ==
  (last.op = "tick" /\ last.err # "none") =>
    /\ stopped
    /\ counter = 0
    /\ \A v \in DOMAIN last.pre.localVariables :
         /\ v \in DOMAIN localVariables
         /\ localVariables[v].value = last.pre.localVariables[v].value
         /\ ~localVariables[v].declared
    /\ \A f \in DOMAIN last.pre.functions :
         /\ f \in DOMAIN functions
         /\ ~functions[f].declared

\* A tick failed while a local variable held a value other than its initial
\* one.
C20_Witness ==
  /\ last.op = "tick"
  /\ last.err # "none"
  /\ \E v \in DOMAIN last.pre.localVariables :
       last.pre.localVariables[v].value \notin {Num(0), Str(""), Null}

\* ------------------------------------------- properties of lines of source
\* The number of the characters of line that are the character c.
Count(line, c) == Cardinality({ i \in 1..Len(line) : line[i] = c })

\* A line with an unterminated string literal or bracket group: a quote
\* without its partner, or an opening bracket that no bracket closes.
Unterminated(line) ==
  \/ Count(line, "\"") % 2 = 1
  \/ \E i \in 1..Len(line) :
       /\ line[i] = "["
       /\ \A j \in (i + 1)..Len(line) : line[j] # "]"

\* The type and value of every variable of a variable table.
Values(variables) ==
  [ v \in DOMAIN variables |-> Comp(variables[v].type, variables[v].value) ]

\* C21: executing a line with an unterminated string literal or bracket
\* group reports a Syntax error, whatever the mode of the interpreter, and
\* neither invokes a keyword callback nor changes the variables, their
\* values or the functions that exist.
C21_UnterminatedIsSyntax ==
  [][ (last'.op = "line" /\ Unterminated(last'.stmt)) =>
        /\ last'.err = "Syntax"
        /\ last'.disp = NoDisp
        /\ Values(localVariables') = Values(localVariables)
        /\ DOMAIN functions' = DOMAIN functions ]_vars

\* The step executes the line of source text t.
Executes(t) == last'.op = "line" /\ last'.stmt = t

\* The step invokes, once and last, the callback of keyword kw with inputs.
Invokes(kw, inputs) ==
  /\ last'.err = "none"
  /\ last'.disp.kw = kw
  /\ last'.disp.inputs = inputs

\* C22: `//` starts a comment only outside a string literal: `log "a//b"`
\* logs the string a//b, and `log "a" //b` logs the string a.
C22_CommentOutsideString ==
  [][ /\ (Executes(LogCommentInString) /\ ~skipping) =>
           Invokes("log", << StrC("a//b") >>)
      /\ (Executes(LogThenComment) /\ ~skipping) =>
           Invokes("log", << StrC("a") >>) ]_vars

\* The last operation executed the line of source text t without an error.
Executed(t) == last.op = "line" /\ last.stmt = t /\ last.err = "none"

\* The last operation tokenised the line of source text t and handed its
\* components to a keyword callback (the keyword was not an ignored one).
Tokenized(t) == Executed(t) /\ last.disp.count > 0

\* The number of the components the last line was tokenised to: the keyword
\* and the inputs its callback was given.
Components == 1 + Len(last.disp.inputs)

\* The inputs of the last callback that are groups, and those that are not.
Groups == { i \in 1..Len(last.disp.inputs) : last.disp.inputs[i].type = "group" }
Scalars == { i \in 1..Len(last.disp.inputs) : last.disp.inputs[i].type # "group" }

\* The group 1|2|3.
OneTwoThree == Comp("group", Group(<< NumC(1), NumC(2), NumC(3) >>))

\* C23 as stated: `rectangle 10 10 "a b" [1|2|3]` is tokenised to four
\* components.
C23_FourComponents ==
  Tokenized(RectangleLine) => Components = 4

\* C23: a line is tokenised to its components from left to right, a quoted
\* span to one string and a bracketed span to one group of its `|`-separated
\* items, whitespace inside either separating nothing:
\* `rectangle 10 10 "a b" [1|2|3]` is tokenised to five components, the
\* keyword and its four inputs, three scalars and one group of three
\* elements.
C23_Tokenized ==
  /\ Tokenized(RectangleLine) =>
       /\ last.disp.kw = "rectangle"
       /\ last.disp.inputs = << NumC(10), NumC(10), StrC("a b"), OneTwoThree >>
       /\ Components = 5
       /\ Cardinality(Scalars) = 3
       /\ Cardinality(Groups) = 1
  /\ Tokenized(LogLine) =>
       /\ last.disp.kw = "log"
       /\ last.disp.inputs = << NumC(10), NumC(10), StrC("a b"), OneTwoThree >>
  /\ Tokenized(LogGroup) =>
       /\ last.disp.kw = "log"
       /\ last.disp.inputs = << Comp("group", Group(<< Id("a b"), Id("c") >>)) >>

\* The callback of the keyword rectangle was invoked for
\* `rectangle 10 10 "a b" [1|2|3]`.
C23_Witness ==
  /\ Tokenized(RectangleLine)
  /\ last.disp.kw = "rectangle"
  /\ last.disp.count = 1

\* The local variable name as a getter reads it.
Local(name) == Comp(localVariables[name].type, localVariables[name].value)

\* The step logs the parameter name when one exists and params says that
\* parameters are looked at, otherwise the local variable name, and reports
\* a Reference error when there is neither.
Resolves(name, params) ==
  IF params /\ name \in DOMAIN parameters.map
  THEN Invokes("log", << parameters.map[name] >>)
  ELSE IF name \in DOMAIN localVariables
       THEN Invokes("log", << Local(name) >>)
       ELSE last'.err = "Reference"

\* C24: an unprefixed getter reads the parameter of its name when a call
\* frame is active and has one, otherwise the local variable; a getter
\* prefixed by `-` reads the local variable even when a parameter has its
\* name; a name that resolves to nothing is a Reference error.
C24_GetterResolution ==
  [][ ~skipping =>
        /\ Executes(LogA) => Resolves("a", Len(callstack) > 0)
        /\ Executes(LogX) => Resolves("x", Len(callstack) > 0)
        /\ Executes(LogQ) => Resolves("q", Len(callstack) > 0)
        /\ Executes(LogLocalA) => Resolves("a", FALSE) ]_vars

\* `log \a\` logged the parameter a of the active call frame while a local
\* variable a with another value existed.
C24_Witness ==
  /\ Executed(LogA)
  /\ Len(callstack) > 0
  /\ "a" \in DOMAIN parameters.map
  /\ "a" \in DOMAIN localVariables
  /\ parameters.map["a"] # Local("a")
  /\ last.disp.inputs = << parameters.map["a"] >>

\* C25: a statement prefixed by a label that is registered, by an extension
\* (`filled`, for rectangle) or built in (`grouped`, for getkeys), but not
\* for the keyword of the statement, reports a Syntax error and invokes no
\* keyword callback.
C25_LabelMustApply ==
  [][ ((Executes(FilledLog) /\ IsOwnLabel(Cur, "filled")) \/ Executes(GroupedLog)) =>
        /\ last'.err = "Syntax"
        /\ last'.disp = NoDisp ]_vars

\* `filled log a` was executed after an extension had registered the label
\* filled.
C25_Witness ==
  /\ last.op = "line"
  /\ last.stmt = FilledLog
  /\ IsOwnLabel(Cur, "filled")
  /\ last.err = "Syntax"

\* The identifier of the extension registered last among those that define
\* the keyword kw, "" when none does.
RECURSIVE LastDefining(_, _)
LastDefining(exts, kw) ==
  IF Len(exts) = 0 THEN ""
  ELSE IF kw \in DOMAIN exts[Len(exts)].keywords THEN exts[Len(exts)].id
       ELSE LastDefining(SubSeq(exts, 1, Len(exts) - 1), kw)

\* The extensions registered so far that define the keyword kw.
Defining(kw) ==
  { i \in 1..Len(extensions) : kw \in DOMAIN extensions[i].keywords }

\* C26: once two extensions that define the keyword rectangle are
\* registered, a statement `rectangle 1` that reaches the keyword invokes
\* one callback, once: that of the extension registered later.
C26_LaterExtensionWins ==
  (Tokenized(RectangleOne) /\ Cardinality(Defining("rectangle")) >= 2) =>
    /\ last.disp.kw = "rectangle"
    /\ last.disp.count = 1
    /\ last.disp.source = LastDefining(extensions, "rectangle")

\* `rectangle 1` was executed after shapes and then draw, two different
\* extensions, had defined rectangle.
C26_Witness ==
  /\ Tokenized(RectangleOne)
  /\ Len(extensions) = 2
  /\ extensions[1].id = "shapes"
  /\ extensions[2].id = "draw"
  /\ last.disp.source = "draw"

\* C27: once an extension that defines a keyword named log is registered, a
\* statement with the keyword log invokes the callback of that extension,
\* not the built-in one.
C27_ExtensionShadowsBuiltin ==
  (last.op = "line" /\ last.err = "none" /\ last.disp.kw = "log"
     /\ "log" \in DOMAIN customKeywords) =>
    last.disp.source = LastDefining(extensions, "log")

\* C28: registering an extension without identifier reports an Environment
\* error to the host and changes neither the extensions, nor the keywords,
\* the global variables or the types that extensions have registered.
C28_AnonymousRejected ==
  [][ Extend(Anonymous) =>
        /\ last'.err = "Environment"
        /\ extensions' = extensions
        /\ customKeywords' = customKeywords
        /\ globalVariables' = globalVariables
        /\ literals' = literals ]_vars

\* The extension without identifier was rejected by an interpreter that
\* already held another extension.
C28_Witness ==
  /\ last.op = "extend"
  /\ last.err = "Environment"
  /\ Len(extensions) > 0

\* C29: loadISL resets the metadata of the previous load: right after it no
\* keyword is ignored.
C29_LoadClearsIgnored ==
  last.op = "load" => ignored = {}

\* x is a declared number variable.
NumberDeclared ==
  "x" \in DOMAIN localVariables /\ localVariables["x"].type = "number"

\* The operation before the step executed the `if` line t, without an
\* error, on the declared number variable x.
AfterIf(t) ==
  last.op = "line" /\ last.stmt = t /\ last.err = "none" /\ NumberDeclared

\* C30: `if 3 < 5 set x 1` sets the declared number variable x to 1; an
\* `else set x 2` directly after it reports no error and leaves x alone,
\* and directly after `if 5 < 3 set x 1`, whose condition is false, it sets
\* x to 2.
C30_ElseAfterIf ==
  [][ ~skipping =>
        /\ (Executes(IfTrue) /\ NumberDeclared) =>
             /\ last'.err = "none"
             /\ localVariables'["x"].value = Num(1)
        /\ (Executes(ElseSet) /\ AfterIf(IfTrue)) =>
             /\ last'.err = "none"
             /\ localVariables'["x"].value = localVariables["x"].value
        /\ (Executes(ElseSet) /\ AfterIf(IfFalse)) =>
             /\ last'.err = "none"
             /\ localVariables'["x"].value = Num(2) ]_vars

\* ------------------------------------------------- properties of iteration
\* C31: at most one iteration is active: an iterate statement executed
\* while an iteration is active fails and leaves the function name, the
\* source group and the index of the iterator as they were.
C31_OneIteration ==
  [][ ((\E g \in IterGroups, f \in IterFunctions : Iterate(g, f))
         /\ iterator.active /\ ~skipping) =>
        /\ last'.err # "none"
        /\ iterator' = iterator ]_vars

\* An iterate statement failed while an iteration was at the second element
\* of its group.
C31_Witness ==
  /\ last.op = "iterate"
  /\ last.err = "Syntax"
  /\ iterator.active
  /\ iterator.index = 2

\* ------------------------------------------------ properties of validation
\* The statement of the step reaches the validation of the inputs of the
\* extension keyword kw: kw is defined and no label is left over.
Validates(kw) ==
  kw \in DOMAIN customKeywords /\ kw \notin ignored /\ currentLabels = << >>

\* C32: a missing input is a Type error exactly when its descriptor is not
\* optional: `circle`, whose first input is required, fails; `circle 1`,
\* whose second input is an optional number, and `dot`, whose only input is
\* optional, pass and invoke the callback.
C32_MissingInput ==
  [][ /\ (Executes(CircleBare) /\ Validates("circle")) =>
           (last'.err = "Type" /\ last'.disp = NoDisp)
      /\ (Executes(CircleOne) /\ Validates("circle")) =>
           Invokes("circle", << NumC(1) >>)
      /\ (Executes(CircleTwo) /\ Validates("circle")) =>
           Invokes("circle", << NumC(1), NumC(2) >>)
      /\ (Executes(DotBare) /\ Validates("dot")) =>
           Invokes("dot", << >>) ]_vars

\* C33: no built-in statement changes a global variable: every executed line,
\* set, add and delete on a local variable of the same name included, leaves
\* each global variable with the value the host or an extension wrote.
C33_GlobalsUntouched ==
  [][ (\E t \in GlobalTexts : ExecuteText(t)) =>
        globalVariables' = globalVariables ]_vars

\* `set width 2` has run on the local variable while the extension's global
\* variable of the same name holds another value.
C33_Witness ==
  /\ last.op = "line"
  /\ last.stmt = SetWidth
  /\ last.err = "none"
  /\ "width" \in DOMAIN globalVariables
  /\ "width" \in DOMAIN localVariables
  /\ localVariables["width"].value # globalVariables["width"].value

\* C34: labels apply to one statement only: whenever a tick dispatches its
\* first line the current-label list is empty, whatever the lines before it
\* did (skipped in a function declaration, or failed in an earlier run).
C34_LabelsCleared ==
  [][ (Tick /\ last'.ran > 0) => currentLabels = << >> ]_vars

\* C35: skipping mode does not outlive the run that opened the function
\* declaration: once a tick has ended the run (the engine is stopped and
\* reset) or the host has loaded a program, the interpreter is not skipping.
C35_SkippingEnds ==
  [][ ((Tick /\ stopped') \/ (\E p \in Programs : LoadISL(p))) =>
        ~skipping' ]_vars

\* C36: at most one scheduler timer drives the interpreter, and once the
\* engine is stopped or paused no timer is left alive.
C36_OneTimer ==
  /\ live <= 1
  /\ stopped => live = 0

\* C37: after every tick the cursor designates a line of the loaded program,
\* 0 <= cursor < number of lines, wherever the program jumps.
C37_CursorInProgram ==
  (last.op = "tick" /\ Len(isl) > 0) => counter \in 0..(Len(isl) - 1)

\* Whether no line of program p has one of the keywords kws.
Without(p, kws) ==
  \A i \in 1..Len(p) : \A j \in 1..Len(p[i].parts) : Text(p[i].parts[j]) \notin kws

\* Running the program tick by tick from st to its end: [ok, ran], ran the
\* 0-based indices of the lines executed, ok when the run ended with no error.
RECURSIVE TickRun(_, _, _, _)
TickRun(st, lines, ran, fuel) ==
  IF st.stopped THEN [ok |-> TRUE, ran |-> ran]
  ELSE IF fuel = 0 THEN [ok |-> FALSE, ran |-> ran]
  ELSE LET r == ExecuteISL(st, lines)
       IN IF r.st.err # "none" THEN [ok |-> FALSE, ran |-> ran]
          ELSE TickRun(r.st, lines,
                       IF r.executed THEN Append(ran, st.counter) ELSE ran,
                       fuel - 1)

\* The tick-by-tick run of the loaded program from the current state.
ByTicks == TickRun(Cur, isl, << >>, MaxRun)

\* C38: for a program without pause, awaitkey, restart or stop that raises
\* no error tick by tick, one start in run-to-completion mode executes the
\* lines the tick-by-tick run executes, in the same order and as often:
\* the first firing of the timer executes them and a later one nothing.
C38_SameStatements ==
  [][ (TickInstant /\ Without(isl, {"pause", "awaitkey", "restart", "stop"})
         /\ ByTicks.ok) =>
        IF last.op = "all" THEN last'.lines = << >>
        ELSE last'.lines = ByTicks.ran ]_vars

\* A program without the keywords kws has been started and is running.
Running(kws) == live > 0 /\ ~stopped /\ Len(isl) > 0 /\ Without(isl, kws)

\* A tick has executed the last line and left the engine stopped and
\* hard-reset, the cursor on the first line.
Ended ==
  /\ last.op = "tick"
  /\ last.ran > 0
  /\ last.line = Len(isl) - 1
  /\ last.err = "none"
  /\ stopped
  /\ counter = 0
  /\ localVariables = EmptyMap
  /\ functions = EmptyMap
  /\ callstack = << >>

\* A tick has reported an error.
Failed == last.op = "tick" /\ last.err # "none"

\* What each firing of the timer does to a running program without the
\* keywords kws: the cursor moves forward inside the program, or the last
\* line has run and the engine is stopped and hard-reset, or an error is
\* reported; and a stopped engine executes no statement. The timer firing
\* again and again, the program then reaches its last line.
Progress(kws) ==
  /\ (Tick /\ Running(kws)) =>
        \/ counter' > counter /\ counter' < Len(isl) /\ ~stopped'
        \/ Ended'
        \/ Failed'
  /\ (Tick /\ stopped) => last'.ran = 0

\* C39 as stated: in tick mode a started program without jump, execute,
\* restart, pause or awaitkey that raises no error reaches its last line,
\* tick after tick, and is then stopped and hard-reset, the cursor on the
\* first line, and executes nothing until the host starts it.
C39_ReachesEnd ==
  [][ Progress({"jump", "execute", "restart", "pause", "awaitkey"}) ]_vars

\* C39, amended: the same for a program that has no stop statement either.
C39_ReachesEndWithoutStop ==
  [][ Progress({"jump", "execute", "restart", "pause", "awaitkey", "stop"}) ]_vars

\* A program without any of these statements has run to its last line.
C39_Witness ==
  /\ Ended
  /\ Without(isl, {"jump", "execute", "restart", "pause", "awaitkey", "stop"})
  /\ isl = StraightProgram(S3(Kw("add"), Id("x"), NumC(1)))
====
